---- MODULE Spec2Model ----
(***************************************************************************)
(* A model of use-acp: the permission-request correlation of AcpClient,    *)
(* the reconnecting WebSocketManager and the ListeningAgent proxy.         *)
(*                                                                         *)
(* Handlers are modelled as operators from a component state (a record of  *)
(* the object's fields) to the component state it leaves, so that a        *)
(* handler that calls another one (onclose -> attemptReconnect, the timer  *)
(* callback -> connect) is the composition of the two operators.  Every    *)
(* action of a specification applies one whole handler.                    *)
(***************************************************************************)
EXTENDS Integers, Sequences, FiniteSets, TLC

\* ------------------------------------------------------------------ bounds
\* Permission requests issued in one run.
MaxRequests == 2
\* resolvePermission / rejectPermission calls made with one issued id.
MaxPermCalls == 2
\* Sockets created in one run (by connect() calls and by reconnect timers).
MaxSockets == 4
\* connect() and disconnect() calls made by the application on one manager.
MaxUserCalls == 3
\* The largest configured reconnectAttempts option (0..MaxConfigured).
MaxConfigured == 2
\* Messages received on the bridged socket in one run.
MaxFrames == 3
\* write() calls made on the writable side in one run.
MaxWrites == 2
\* The length of the event list given to groupNotifications.
MaxEvents == 4
\* The length of the update list given to mergeToolCalls.
MaxUpdates == 3
MaxInstances == 3
MaxMultiCalls == 3
MaxMultiSockets == 3
MaxStoreCalls == 5
MaxConnectionCalls == 4
MaxConnectSteps == 6
MaxFileCalls == 3

VARIABLES
    \* AcpClient (src/src/client/acp-client.ts)
    pendingPermissions,   \* the keys of the pendingPermissions map
    deferreds,            \* id -> the Deferred created for that request
    permissionSink,       \* the calls of options.onRequestPermission, in order: the
                          \* deferredId passed and the callback's own answer, if any
    permRequests,         \* the latest requestPermission call: the params it was
                          \* given and the params it passed to the sink
    permCalls,            \* id -> the resolve/reject calls made with it: how many, the first, the last
    nextPermission        \* how many requests were issued

permVars == <<pendingPermissions, deferreds, permissionSink, permRequests,
              permCalls, nextPermission>>

VARIABLES
    \* WebSocketManager (src/unnamed/part_003), one per instance
    ws,                   \* this.ws: a socket (its index in sockets) or 0 for null
    reconnectCount,       \* this.reconnectCount
    reconnectTimer,       \* this.reconnectTimer: a timer handle or 0 for null
    streams,              \* readableStream/writableStream: the socket they wrap, 0 for null
    lastReported,         \* the status last passed to onConnectionStateChange
    reconnectAttempts,    \* options.reconnectAttempts as configured
    urlValid,             \* whether new WebSocket(url) accepts options.url
    \* the environment: every WebSocket created and every setTimeout made
    sockets,
    timers,
    \* observations of the calls made on each manager
    connectCalls,         \* explicit connect() calls
    disconnectCalls,      \* disconnect() calls
    term                  \* what the last disconnect() found, until the next connect()

netVars == <<ws, reconnectCount, reconnectTimer, streams, lastReported,
             reconnectAttempts, urlValid, sockets, timers,
             connectCalls, disconnectCalls, term>>

VARIABLES
    \* ListeningAgent (src/src/client/acp-client.ts)
    agentOptional,        \* the optional Agent methods the wrapped agent implements
    call                  \* the proxy call in progress or last completed

proxyVars == <<agentOptional, call>>

VARIABLES
    \* createWebSocketReadableStream / createWebSocketWritableStream
    \* (src/src/components/streams.ts, src/unnamed/part_001) over one socket
    bridge

bridgeVars == <<bridge>>

VARIABLES
    \* groupNotifications / mergeToolCalls (src/unnamed/part_004)
    agg                   \* the function applied, its argument and its result

aggVars == <<agg>>

VARIABLES
    \* toJsonRpcError (src/src/client/acp-client.ts) and JsonRpcError.toJSON
    norm                  \* a caught value, what it normalizes to and its wire shape

normVars == <<norm>>

VARIABLES
    \* MultiWebSocketManager (src/unnamed/part_003)
    multi                 \* its fields, the WebSocketManagers it constructed and
                          \* their environment, and what its last call did

multiVars == <<multi>>

VARIABLES
    \* useAcpStore (src/src/state/atoms.ts, src/unnamed/part_005)
    store                 \* its state, and the last operation called on it

storeVars == <<store>>

VARIABLES
    \* AcpClient.readTextFile / writeTextFile (src/src/client/acp-client.ts)
    files                 \* the handlers in options, the call in progress or last
                          \* completed and the handler invocations it made

fileVars == <<files>>

VARIABLES
    \* useAcpClient, the multi-connection hook (src/unnamed/part_000)
    hookSessions,         \* the store it writes, the ListeningAgent call in
                          \* progress and the agent's optional methods
    hookPermissions,      \* pendingPermission and the AcpClient of acpClientRef
    hookConnection        \* multiWsManagerRef, the connect() calls awaiting their
                          \* streams and the agent the hook exposes

hookVars == <<hookSessions, hookPermissions, hookConnection>>

vars == <<permVars, netVars, proxyVars, bridgeVars, aggVars, normVars, multiVars,
          storeVars, fileVars, hookVars>>

\* ------------------------------------------------------------- AcpClient
PermissionIds == 1..MaxRequests
Responses == {"allow", "deny"}
PermErrors == {"cancelled"}
\* RequestPermissionRequest values
PermParams == {"edit file", "run command"}

\* A Deferred: state none (not created), pending, resolved or rejected; value
\* is what it settled with; settles counts the resolve/reject invocations on it.
NoDeferred == [state |-> "none", value |-> "-", settles |-> 0]
NewDeferred == [state |-> "pending", value |-> "-", settles |-> 0]

\* Deferred.resolve / Deferred.reject: the first call settles the promise,
\* a later call is ignored.
DeferredResolve(d, v) ==
    IF d.state = "pending"
    THEN [state |-> "resolved", value |-> v, settles |-> d.settles + 1]
    ELSE [d EXCEPT !.settles = @ + 1]

DeferredReject(d, e) ==
    IF d.state = "pending"
    THEN [state |-> "rejected", value |-> e, settles |-> d.settles + 1]
    ELSE [d EXCEPT !.settles = @ + 1]

\* The AcpClient's fields (and the observations made of it) as one record.
PermState ==
    [pending |-> pendingPermissions, deferreds |-> deferreds,
     sink |-> permissionSink, requests |-> permRequests,
     calls |-> permCalls, next |-> nextPermission]

\* Record a resolve/reject call made with an id that has been issued.
NoOutcome == [kind |-> "none", value |-> "-"]
NoCalls == [n |-> 0, first |-> NoOutcome, last |-> NoOutcome]

NoteCall(p, id, outcome) ==
    IF p.deferreds[id].state = "none" THEN p
    ELSE [p EXCEPT !.calls[id] =
            [n |-> @.n + 1,
             first |-> IF @.n = 0 THEN outcome ELSE @.first,
             last |-> outcome]]

\* Mutant of resolvePermission: the entry is not deleted from the map.
resolvePermission_keep(p, id, response) ==
    LET q == NoteCall(p, id, [kind |-> "resolved", value |-> response])
    IN IF id \in q.pending
       THEN [q EXCEPT !.deferreds[id] = DeferredResolve(@, response)]
       ELSE q

\* resolvePermission(permissionId, response)
resolvePermission(p, id, response) ==
    LET q == NoteCall(p, id, [kind |-> "resolved", value |-> response])
    IN IF id \in q.pending
       THEN [q EXCEPT !.pending = @ \ {id},
                      !.deferreds[id] = DeferredResolve(@, response)]
       ELSE q

\* Mutant of rejectPermission: the Deferred is rejected whether or not the
\* id is still in the map.
rejectPermission_noGuard(p, id, error) ==
    LET q == NoteCall(p, id, [kind |-> "rejected", value |-> error])
    IN IF q.deferreds[id].state # "none"
       THEN [q EXCEPT !.pending = @ \ {id},
                      !.deferreds[id] = DeferredReject(@, error)]
       ELSE q

\* rejectPermission(permissionId, error)
rejectPermission(p, id, error) ==
    LET q == NoteCall(p, id, [kind |-> "rejected", value |-> error])
    IN IF id \in q.pending
       THEN [q EXCEPT !.pending = @ \ {id},
                      !.deferreds[id] = DeferredReject(@, error)]
       ELSE q

\* What options.onRequestPermission may do before it returns: nothing, or
\* answer the request (or another id) synchronously.
SinkReactions ==
    {[act |-> "none", id |-> 0, value |-> "-"]}
    \cup [act : {"resolve"}, id : PermissionIds, value : Responses]
    \cup [act : {"reject"}, id : PermissionIds, value : PermErrors]

RunSink(p, reaction) ==
    CASE reaction.act = "resolve" -> resolvePermission(p, reaction.id, reaction.value)
      [] reaction.act = "reject" -> rejectPermission(p, reaction.id, reaction.value)
      [] OTHER -> p

\* The correlation id `${Date.now()}-${Math.random()}` is modelled as a fresh
\* id: the case of two live requests drawing the same string is left out.
FreshPermissionId(p) == p.next + 1

\* What the sink callback of request id did with that id before returning.
SinkAnswer(reaction, id) ==
    IF reaction.act # "none" /\ reaction.id = id
    THEN [kind |-> IF reaction.act = "resolve" THEN "resolved" ELSE "rejected",
          value |-> reaction.value]
    ELSE NoOutcome

\* Mutant of requestPermission: the sink is notified before the map is set.
requestPermission_notifyFirst(p, params, reaction) ==
    LET id == FreshPermissionId(p)
        noted == [p EXCEPT !.requests = [given |-> params, passed |-> params]]
        notified == [noted EXCEPT !.sink = Append(@, [deferredId |-> id,
                                                       answer |-> SinkAnswer(reaction, id)])]
        answered == RunSink(notified, reaction)
    IN [answered EXCEPT !.pending = @ \cup {id},
                        !.deferreds[id] = NewDeferred,
                        !.next = id]

\* requestPermission(params): the map is set, then the sink is called with
\* {...params, deferredId} and runs before requestPermission returns.
requestPermission(p, params, reaction) ==
    LET id == FreshPermissionId(p)
        noted == [p EXCEPT !.requests = [given |-> params, passed |-> params]]
        stored == [noted EXCEPT !.pending = @ \cup {id},
                                !.deferreds[id] = NewDeferred,
                                !.next = id]
        notified == [stored EXCEPT !.sink = Append(@, [deferredId |-> id,
                                                        answer |-> SinkAnswer(reaction, id)])]
    IN RunSink(notified, reaction)

SetPerm(p) ==
    /\ UNCHANGED <<netVars, proxyVars, bridgeVars, aggVars, normVars, multiVars, storeVars, fileVars, hookVars>>
    /\ pendingPermissions' = p.pending
    /\ deferreds' = p.deferreds
    /\ permissionSink' = p.sink
    /\ permRequests' = p.requests
    /\ permCalls' = p.calls
    /\ nextPermission' = p.next

CallAllowed(id) ==
    deferreds[id].state # "none" => permCalls[id].n < MaxPermCalls

ReactionAllowed(reaction) ==
    reaction.act # "none" =>
        /\ reaction.id <= nextPermission + 1
        /\ (reaction.id <= nextPermission => CallAllowed(reaction.id))

RequestPermission ==
    /\ nextPermission < MaxRequests
    /\ \E params \in PermParams, reaction \in SinkReactions :
        /\ ReactionAllowed(reaction)
        /\ SetPerm(requestPermission(PermState, params, reaction))

ResolvePermission ==
    \E id \in PermissionIds, response \in Responses :
        /\ CallAllowed(id)
        /\ SetPerm(resolvePermission(PermState, id, response))

RejectPermission ==
    \E id \in PermissionIds, error \in PermErrors :
        /\ CallAllowed(id)
        /\ SetPerm(rejectPermission(PermState, id, error))

PermInit ==
    /\ pendingPermissions = {}
    /\ deferreds = [id \in PermissionIds |-> NoDeferred]
    /\ permissionSink = <<>>
    /\ permRequests = [given |-> "-", passed |-> "-"]
    /\ permCalls = [id \in PermissionIds |-> NoCalls]
    /\ nextPermission = 0

PermNext == RequestPermission \/ ResolvePermission \/ RejectPermission

\* ------------------------------------------------------ WebSocketManager
\* The WebSocketManager instances constructed.
Managers == {1}
DefaultAttempts == 3

\* The manager's fields and its environment as one record.
NetState ==
    [ws |-> ws, reconnectCount |-> reconnectCount, reconnectTimer |-> reconnectTimer,
     streams |-> streams, lastReported |-> lastReported, sockets |-> sockets,
     timers |-> timers]

\* A WebSocket as the manager sees it.  handlers says whose onclose/onerror are
\* installed: the manager's (set in connect) or the readable stream's (set by
\* createWebSocketReadableStream, which assigns ws.onclose and ws.onerror).
\* stream is the state of the readable stream whose controller those handlers
\* drive, promise the promise connect() returned for the socket, and retry
\* what its close event did about reconnecting: scheduled a timer, found the
\* attempts exhausted, or dropped (no timer although attempts were left).
NewSocket(m) ==
    [mgr |-> m, readyState |-> "CONNECTING", established |-> FALSE,
     handlers |-> "manager", stream |-> "none", promise |-> "pending",
     retry |-> "none"]

\* this.options.reconnectAttempts || 3
EffectiveAttempts(configured) ==
    IF configured = 0 THEN DefaultAttempts ELSE configured

\* updateConnectionState(state)
updateConnectionState(t, m, status) ==
    [t EXCEPT !.lastReported[m] = status]

\* connect(): the state is reported, the socket is created and its handlers
\* are installed; new WebSocket throws on a url it cannot parse.
connect(t, m, valid) ==
    LET t1 == updateConnectionState(t, m, "connecting")
    IN IF valid
       THEN [t1 EXCEPT !.sockets = Append(@, NewSocket(m)),
                       !.ws[m] = Len(t1.sockets) + 1]
       ELSE updateConnectionState(t1, m, "error")

\* Mutant of attemptReconnect: one attempt too many (<= for <).
attemptReconnect_offByOne(t, m, max) ==
    IF t.reconnectCount[m] <= max
    THEN [t EXCEPT !.reconnectCount[m] = @ + 1,
                   !.timers = Append(@, [mgr |-> m, state |-> "pending"]),
                   !.reconnectTimer[m] = Len(t.timers) + 1]
    ELSE t

\* attemptReconnect()
attemptReconnect(t, m, max) ==
    IF t.reconnectCount[m] < max
    THEN [t EXCEPT !.reconnectCount[m] = @ + 1,
                   !.timers = Append(@, [mgr |-> m, state |-> "pending"]),
                   !.reconnectTimer[m] = Len(t.timers) + 1]
    ELSE t

\* createWebSocketReadableStream(w) / createWebSocketWritableStream(w): start()
\* runs in the constructor and replaces w.onmessage, w.onclose and w.onerror.
createStreams(t, m, w) ==
    [t EXCEPT !.streams[m] = w,
              !.sockets[w].handlers = "stream",
              !.sockets[w].stream = "readable"]

\* ws.onopen of socket s, as set in connect()
onopen(t, s) ==
    LET m == t.sockets[s].mgr
        t1 == [t EXCEPT !.reconnectCount[m] = 0]
        t2 == updateConnectionState(t1, m, "connected")
    IN IF t2.ws[m] # 0
       THEN [createStreams(t2, m, t2.ws[m]) EXCEPT
                !.sockets[s].promise =
                    IF @ = "pending" THEN "resolved" ELSE @]
       ELSE t2

\* ws.onerror of socket s, as set in connect()
onerror(t, s) ==
    LET m == t.sockets[s].mgr
        t2 == updateConnectionState(t, m, "error")
    IN [t2 EXCEPT !.sockets[s].promise = IF @ = "pending" THEN "rejected" ELSE @]

\* ws.onclose of socket s, as set in connect()
onclose(t, s, max) ==
    LET m == t.sockets[s].mgr
    IN attemptReconnect(updateConnectionState(t, m, "disconnected"), m, max)

\* ws.onerror / ws.onclose of socket s, as set by createWebSocketReadableStream:
\* controller.error(error) / controller.close()
streamOnError(t, s) ==
    [t EXCEPT !.sockets[s].stream = IF @ = "readable" THEN "errored" ELSE @]

streamOnClose(t, s) ==
    [t EXCEPT !.sockets[s].stream = IF @ = "readable" THEN "closed" ELSE @]

\* The error and the close event of socket s reach the handlers installed.
fireError(t, s) ==
    IF t.sockets[s].handlers = "manager" THEN onerror(t, s) ELSE streamOnError(t, s)

fireClose(t, s, max) ==
    IF t.sockets[s].handlers = "manager" THEN onclose(t, s, max) ELSE streamOnClose(t, s)

\* WebSocket.close(): a socket not yet closing starts to close.
closeSocket(t, s) ==
    IF t.sockets[s].readyState \in {"CONNECTING", "OPEN"}
    THEN [t EXCEPT !.sockets[s].readyState = "CLOSING"]
    ELSE t

\* clearTimeout(handle)
clearTimeout(t, k) ==
    IF t.timers[k].state = "pending"
    THEN [t EXCEPT !.timers[k].state = "cleared"]
    ELSE t

\* disconnect()
disconnect(t, m) ==
    LET t1 == IF t.reconnectTimer[m] # 0
              THEN [clearTimeout(t, t.reconnectTimer[m]) EXCEPT !.reconnectTimer[m] = 0]
              ELSE t
        t2 == IF t1.ws[m] # 0
              THEN [closeSocket(t1, t1.ws[m]) EXCEPT !.ws[m] = 0]
              ELSE t1
        t3 == [t2 EXCEPT !.streams[m] = 0]
    IN updateConnectionState(t3, m, "disconnected")

\* getConnectionState()
getConnectionState(t, m) ==
    IF t.ws[m] = 0 THEN "disconnected"
    ELSE CASE t.sockets[t.ws[m]].readyState = "CONNECTING" -> "connecting"
           [] t.sockets[t.ws[m]].readyState = "OPEN" -> "connected"
           [] OTHER -> "disconnected"

SetNet(t) ==
    /\ UNCHANGED <<permVars, proxyVars, bridgeVars, aggVars, normVars, multiVars, storeVars, fileVars, hookVars>>
    /\ ws' = t.ws
    /\ reconnectCount' = t.reconnectCount
    /\ reconnectTimer' = t.reconnectTimer
    /\ streams' = t.streams
    /\ lastReported' = t.lastReported
    /\ sockets' = t.sockets
    /\ timers' = t.timers

PendingTimers(m) ==
    {k \in 1..Len(timers) : timers[k].mgr = m /\ timers[k].state = "pending"}

LiveSockets(m) ==
    {s \in 1..Len(sockets) :
        sockets[s].mgr = m /\ sockets[s].readyState \in {"CONNECTING", "OPEN"}}

NoTerm == [active |-> FALSE, hadTimer |-> FALSE, wsState |-> "none",
           nSockets |-> 0, nTimers |-> 0, timer |-> 0]

\* The application calls connect() on manager m.
Connect(m) ==
    /\ connectCalls[m] + disconnectCalls[m] < MaxUserCalls
    /\ Len(sockets) < MaxSockets
    /\ SetNet(connect(NetState, m, urlValid))
    /\ connectCalls' = [connectCalls EXCEPT ![m] = @ + 1]
    /\ term' = [term EXCEPT ![m] = NoTerm]
    /\ UNCHANGED <<disconnectCalls, reconnectAttempts, urlValid>>

\* The application calls disconnect() on manager m.
Disconnect(m) ==
    /\ connectCalls[m] + disconnectCalls[m] < MaxUserCalls
    /\ SetNet(disconnect(NetState, m))
    /\ disconnectCalls' = [disconnectCalls EXCEPT ![m] = @ + 1]
    /\ term' = [term EXCEPT ![m] =
                  [active |-> TRUE,
                   hadTimer |-> PendingTimers(m) # {},
                   wsState |-> IF ws[m] = 0 THEN "none" ELSE sockets[ws[m]].readyState,
                   nSockets |-> Len(sockets),
                   nTimers |-> Len(timers),
                   timer |-> reconnectTimer[m]]]
    /\ UNCHANGED <<connectCalls, reconnectAttempts, urlValid>>

\* The reconnect timer k fires: its callback awaits this.connect().
TimerFires(k) ==
    /\ timers[k].state = "pending"
    /\ Len(sockets) < MaxSockets
    /\ SetNet(connect([NetState EXCEPT !.timers[k].state = "fired"],
                      timers[k].mgr, urlValid))
    /\ UNCHANGED <<connectCalls, disconnectCalls, term, reconnectAttempts, urlValid>>

\* The handshake of socket s succeeds: the open event.
SocketOpens(s) ==
    /\ sockets[s].readyState = "CONNECTING"
    /\ SetNet(onopen([NetState EXCEPT !.sockets[s].readyState = "OPEN",
                                      !.sockets[s].established = TRUE], s))
    /\ UNCHANGED <<connectCalls, disconnectCalls, term, reconnectAttempts, urlValid>>

\* Socket s is closed: by the peer, by the network, or after close().  A
\* socket that never opened has failed, and its error event precedes its close
\* event; an established socket closes with or without an error event.
SocketCloses(s) ==
    /\ sockets[s].readyState \in {"CONNECTING", "OPEN", "CLOSING"}
    /\ \E withError \in (IF sockets[s].established THEN BOOLEAN ELSE {TRUE}) :
        LET max == EffectiveAttempts(reconnectAttempts)
            t1 == [NetState EXCEPT !.sockets[s].readyState = "CLOSED"]
            t2 == IF withError THEN fireError(t1, s) ELSE t1
            t3 == fireClose(t2, s, max)
            retry == IF Len(t3.timers) > Len(t2.timers) THEN "scheduled"
                     ELSE IF t2.reconnectCount[sockets[s].mgr] >= max THEN "exhausted"
                     ELSE "dropped"
        IN SetNet([t3 EXCEPT !.sockets[s].retry = retry])
    /\ UNCHANGED <<connectCalls, disconnectCalls, term, reconnectAttempts, urlValid>>

NetInit ==
    /\ ws = [m \in Managers |-> 0]
    /\ reconnectCount = [m \in Managers |-> 0]
    /\ reconnectTimer = [m \in Managers |-> 0]
    /\ streams = [m \in Managers |-> 0]
    /\ lastReported = [m \in Managers |-> "none"]
    /\ reconnectAttempts \in 0..MaxConfigured
    /\ urlValid \in BOOLEAN
    /\ sockets = <<>>
    /\ timers = <<>>
    /\ connectCalls = [m \in Managers |-> 0]
    /\ disconnectCalls = [m \in Managers |-> 0]
    /\ term = [m \in Managers |-> NoTerm]

NetNext ==
    \/ \E m \in Managers : Connect(m)
    \/ \E m \in Managers : Disconnect(m)
    \/ \E k \in 1..Len(timers) : TimerFires(k)
    \/ \E s \in 1..Len(sockets) : SocketOpens(s)
    \/ \E s \in 1..Len(sockets) : SocketCloses(s)


\* ------------------------------------------------------- ListeningAgent
\* Values: undefined, strings and objects, tagged with their typeof.
Val(t, v) == [t |-> t, v |-> v]
Und == Val("undefined", "")
Str(x) == Val("string", x)
Obj(x) == Val("object", x)

\* A thrown or rejected value.  type is its class (JsonRpcError, Error),
\* "object" for a plain object or the typeof of a primitive; codeT and
\* messageT are the typeof of its code and message properties.
Thrown(type, codeT, code, messageT, message, data, stack) ==
    [type |-> type, codeT |-> codeT, code |-> code, messageT |-> messageT,
     message |-> message, data |-> data, stack |-> stack, id |-> Und]

\* null, as toJsonRpcError returns it; also "no error" in an outcome.
Null == Thrown("null", "undefined", 0, "undefined", "", Und, Und)

INTERNAL_ERROR == -32603
INVALID_PARAMS == -32602
METHOD_NOT_FOUND == -32601

\* new JsonRpcError({code, message, data}): super(typeof data === "string" ?
\* data : message)
JsonRpcError(code, message, data) ==
    Thrown("JsonRpcError", "number", code, "string",
           IF data.t = "string" THEN data.v ELSE message, data, Und)

\* new Error(message)
Error(message) == Thrown("Error", "undefined", 0, "string", message, Und, Str("stack"))

\* A plain object {code, message, data}
PlainError(code, message, data) ==
    Thrown("object", "number", code, "string", message, data, Und)

\* toJsonRpcError(error)
toJsonRpcError(error) ==
    IF error.type = "JsonRpcError" THEN error
    ELSE IF error.type = "Error"
    THEN JsonRpcError(INTERNAL_ERROR, error.message, error.stack)
    ELSE IF error.type = "object" /\ error.codeT = "number" /\ error.messageT = "string"
    THEN JsonRpcError(error.code, error.message, error.data)
    ELSE Null

\* What the wrapped agent may reject with.
AgentFailures ==
    {JsonRpcError(METHOD_NOT_FOUND, "not found", Und),
     Error("boom"),
     PlainError(INVALID_PARAMS, "bad", Und),
     PlainError(INVALID_PARAMS, "bad", Str("detail")),
     Thrown("object", "string", 0, "string", "bad", Und, Und),
     Thrown("number", "undefined", 0, "undefined", "", Val("number", "42"), Und)}

HookFailure == Error("hook failed")
CapabilityMissing == Error("Agent does not support loadSession capability")

Requests == {"req1", "req2"}
AgentResponses == {"resp1", "resp2"}
Undefined == "undefined"
EmptyObject == "{}"

RequiredMethods == {"initialize", "newSession", "authenticate", "prompt", "cancel"}
OptionalMethods ==
    {"loadSession", "setSessionMode", "setSessionModel", "extMethod", "extNotification"}
ExtMethods == {"extMethod", "extNotification"}
\* authenticate and cancel are declared Promise<void>: the agent's promise
\* carries no value and the response hook is given undefined.
VoidMethods == {"authenticate", "cancel", "extNotification"}
Methods == RequiredMethods \cup OptionalMethods

\* A callback of ListeningAgentCallbacks: not set, set, or set and throwing.
HookModes == {"unset", "set", "throws"}

NoResult == [kind |-> "none", response |-> "-", error |-> Null]
Returned(response) == [kind |-> "returned", response |-> response, error |-> Null]
Threw(error) == [kind |-> "threw", response |-> "-", error |-> error]

\* One entry of the call's log: a hook invocation with its arguments, or the
\* dispatch of the call to the agent.
Entry(ev, request, response, error) ==
    [ev |-> ev, request |-> request, response |-> response, error |-> error]

IdleCall ==
    [method |-> "none", request |-> "-", pc |-> "idle",
     hooks |-> [start |-> "unset", response |-> "unset", error |-> "unset"],
     log |-> <<>>, agentResult |-> NoResult, outcome |-> NoResult]

\* this.callbacks.on_X?.(...) : nothing when unset; the hook may throw.
InvokeHook(c, mode, entry) ==
    IF mode = "unset" THEN c ELSE [c EXCEPT !.log = Append(@, entry)]

Finish(c, outcome) == [c EXCEPT !.pc = "done", !.outcome = outcome]

\* this.agent.X(params): the call reaches the agent and the proxy awaits it.
Dispatch(c) ==
    [c EXCEPT !.pc = "awaiting",
              !.log = Append(@, Entry("dispatch", c.request, "-", Null))]

\* The proxy method up to its first await.  has: the agent implements it.
\* extMethod, extNotification: no hooks, the agent's promise or a resolved one.
\* loadSession: the start hook, then the capability check.
\* setSessionMode, setSessionModel: this.agent.X?.(params) is undefined when
\* the agent lacks X, and the response hook is then given undefined.
\* The others: the start hook, then the dispatch.
StartCall(c, has) ==
    IF c.method \in ExtMethods
    THEN IF has THEN Dispatch(c)
         ELSE Finish(c, Returned(IF c.method = "extMethod" THEN EmptyObject ELSE Undefined))
    ELSE LET started == InvokeHook(c, c.hooks.start, Entry("start", c.request, "-", Null))
         IN IF c.hooks.start = "throws" THEN Finish(started, Threw(HookFailure))
            ELSE IF has THEN Dispatch(started)
            ELSE IF c.method = "loadSession" THEN Finish(started, Threw(CapabilityMissing))
            ELSE LET answered == InvokeHook(started, c.hooks.response,
                                            Entry("response", c.request, Undefined, Null))
                 IN IF c.hooks.response = "throws"
                    THEN Finish(answered, Threw(HookFailure))
                    ELSE Finish(answered, Returned(Undefined))

\* handleCatchRpcError(methodName)(error): what the .catch handler throws.
\* Yields the call (its log) and the value thrown.
handleCatchRpcError(c, error) ==
    LET jsonRpcError == toJsonRpcError(error)
    IN IF jsonRpcError # Null
       THEN [call |-> InvokeHook(c, c.hooks.error, Entry("error", "-", "-", jsonRpcError)),
             thrown |-> IF c.hooks.error = "throws" THEN HookFailure ELSE jsonRpcError]
       ELSE [call |-> c, thrown |-> error]

\* Mutant of AfterAwait: the .catch handler's error is swallowed and the
\* method goes on to its response hook.
AfterAwait_swallow(c, result) ==
    LET c1 == [c EXCEPT !.agentResult = result]
        caught == IF result.kind = "threw" THEN handleCatchRpcError(c1, result.error).call
                  ELSE c1
        given == IF c.method \in VoidMethods \/ result.kind = "threw"
                 THEN Undefined ELSE result.response
        answered == InvokeHook(caught, c.hooks.response,
                               Entry("response", c.request, given, Null))
    IN IF c.hooks.response = "throws" THEN Finish(answered, Threw(HookFailure))
       ELSE Finish(answered, Returned(given))

\* The proxy method after its await: the agent's promise has settled with
\* result.  extMethod and extNotification hand the agent's promise through.
AfterAwait(c, result) ==
    LET c1 == [c EXCEPT !.agentResult = result]
    IN IF c.method \in ExtMethods
       THEN Finish(c1, result)
       ELSE IF result.kind = "threw"
       THEN LET caught == handleCatchRpcError(c1, result.error)
            IN Finish(caught.call, Threw(caught.thrown))
       ELSE LET given == IF c.method \in VoidMethods THEN Undefined ELSE result.response
                answered == InvokeHook(c1, c.hooks.response,
                                       Entry("response", c.request, given, Null))
            IN IF c.hooks.response = "throws"
               THEN Finish(answered, Threw(HookFailure))
               ELSE Finish(answered, Returned(given))

\* What the agent's promise may settle with for a method.
AgentResults(method) ==
    {Returned(r) : r \in (IF method \in VoidMethods THEN {Undefined} ELSE AgentResponses)}
    \cup {Threw(e) : e \in AgentFailures}

SetProxy(c) ==
    /\ call' = c
    /\ UNCHANGED <<agentOptional, permVars, netVars, bridgeVars, aggVars, normVars, multiVars, storeVars, fileVars, hookVars>>

\* The application calls a method of the proxy.
ProxyCall ==
    /\ call.pc \in {"idle", "done"}
    /\ \E method \in Methods, request \in Requests,
          hs \in HookModes, hr \in HookModes, he \in HookModes :
        SetProxy(StartCall(
            [IdleCall EXCEPT !.method = method, !.request = request,
                             !.hooks = [start |-> hs, response |-> hr, error |-> he]],
            method \in RequiredMethods \cup agentOptional))

\* The agent's promise settles and the proxy method resumes.
AgentSettles ==
    /\ call.pc = "awaiting"
    /\ \E result \in AgentResults(call.method) :
        SetProxy(AfterAwait(call, result))

ProxyInit ==
    /\ agentOptional \in {{}, {"loadSession"}, OptionalMethods}
    /\ call = IdleCall

ProxyNext == ProxyCall \/ AgentSettles

\* ---------------------------------------------------- stream bridge
\* Bytes are numbers, chunks are sequences of bytes.  Text is modelled as
\* its character codes (ASCII, so that TextEncoder.encode is the identity).
Newline == 10
Hi == <<104, 105>>
Bytes123 == <<1, 2, 3>>
\* `${blob}`: the string "[object Blob]"
ObjectBlob == <<91, 111, 98, 106, 101, 99, 116, 32, 66, 108, 111, 98, 93>>

\* A message event: event.data is a string for a text frame; for a binary
\* frame it is an ArrayBuffer or a Blob according to ws.binaryType (which
\* the code never sets; the standard default is "blob"), or a Uint8Array
\* (a Buffer) with a Node socket.
TextFrames == {[frame |-> "text", data |-> "string", bytes |-> Hi]}
BinaryFrames ==
    {[frame |-> "binary", data |-> k, bytes |-> Bytes123] :
        k \in {"ArrayBuffer", "Uint8Array", "Blob"}}
Frames == TextFrames \cup BinaryFrames

\* The two versions of createWebSocketReadableStream: values() buffering
\* through a background reader (streams.ts), values() reading directly
\* (part_001).
Variants == {"buffered", "direct"}

\* A ReadableStream with its default controller (WHATWG Streams).
\* threw: a call of the controller threw its TypeError into the socket's
\* event handler.
NewReadable ==
    [state |-> "readable", queue |-> <<>>, closeRequested |-> FALSE, locked |-> FALSE,
     threw |-> FALSE]

\* controller.enqueue(chunk): throws, changing nothing, unless the stream is
\* readable and not closing.
Enqueue(r, chunk) ==
    IF r.state = "readable" /\ ~r.closeRequested
    THEN [r EXCEPT !.queue = Append(@, chunk)]
    ELSE [r EXCEPT !.threw = TRUE]

\* controller.close(): the stream closes once its queue is empty; throws,
\* changing nothing, when it is not readable.
ControllerClose(r) ==
    IF r.state = "readable" /\ ~r.closeRequested
    THEN IF r.queue = <<>> THEN [r EXCEPT !.state = "closed"]
         ELSE [r EXCEPT !.closeRequested = TRUE]
    ELSE [r EXCEPT !.threw = TRUE]

\* controller.error(e): the queue is discarded; nothing happens, and nothing
\* is thrown, when the stream is not readable.
ControllerError(r) ==
    IF r.state = "readable"
    THEN [r EXCEPT !.state = "errored", !.queue = <<>>]
    ELSE r

\* The chunk a read takes from the queue leaves it; a closing stream closes
\* with its last chunk.
Dequeue(r) ==
    LET rest == Tail(r.queue)
    IN [r EXCEPT !.queue = rest,
                 !.state = IF r.closeRequested /\ rest = <<>> THEN "closed" ELSE @]

\* The bridge over one socket.
NewBridge(variant, readyState) ==
    [variant |-> variant,
     readyState |-> readyState,        \* of the socket
     inbound |-> <<>>,                 \* the message events fired, in order
     readable |-> NewReadable,
     \* streams.ts: chunks, streamEnded, readerStarted and the reader's loop
     chunks |-> <<>>, streamEnded |-> FALSE, readerStarted |-> FALSE,
     loop |-> "none",
     \* the consumer's iteration over values():
     \* none, waiting (a next() is outstanding), idle (a chunk was yielded),
     \* done or failed; index is the generator's; delivered what it yielded
     iter |-> "none", index |-> 0, delivered |-> <<>>,
     \* stream.cancel() calls: none made, fulfilled or rejected
     cancel |-> "none",
     \* the writable side
     writable |-> "writable", writes |-> <<>>, outbound |-> <<>>,
     disconnected |-> FALSE]

\* ws.onmessage as set by createWebSocketReadableStream
onmessage(b, event) ==
    LET chunk == IF event.data \in {"ArrayBuffer", "Uint8Array"} THEN event.bytes
                 ELSE Append(IF event.data = "string" THEN event.bytes ELSE ObjectBlob,
                             Newline)
    IN [b EXCEPT !.readable = Enqueue(@, chunk)]

\* streams.ts: the loop of startReading, as far as it can go: every queued
\* chunk is pushed to chunks; on done, streamEnded is set; a failed read
\* leaves the loop through finally and .catch(console.error).
readerLoop(b) ==
    IF b.loop # "reading" THEN b
    ELSE LET taken == [b EXCEPT !.chunks = @ \o b.readable.queue,
                                !.readable.queue = <<>>,
                                !.readable.state =
                                    IF b.readable.closeRequested THEN "closed" ELSE @]
         IN CASE taken.readable.state = "closed" ->
                    [taken EXCEPT !.streamEnded = TRUE, !.loop = "ended",
                                  !.readable.locked = FALSE]
              [] taken.readable.state = "errored" ->
                    [taken EXCEPT !.loop = "failed", !.readable.locked = FALSE]
              [] OTHER -> taken

\* part_001: the read of values() that is in flight, if it can complete:
\* a chunk is yielded; done ends the iteration; an error makes it throw.
directRead(b) ==
    IF b.iter # "waiting" THEN b
    ELSE CASE b.readable.queue # <<>> ->
                  [b EXCEPT !.delivered = Append(@, Head(b.readable.queue)),
                            !.readable = Dequeue(@),
                            !.iter = "idle"]
           [] b.readable.state = "closed" ->
                  [b EXCEPT !.iter = "done", !.readable.locked = FALSE]
           [] b.readable.state = "errored" ->
                  [b EXCEPT !.iter = "failed", !.readable.locked = FALSE]
           [] OTHER -> b

\* The promise reactions that run before the next event is handled.
settle(b) == IF b.variant = "buffered" THEN readerLoop(b) ELSE directRead(b)

\* streams.ts: startReading()
startReading(b) ==
    IF b.readerStarted THEN b
    ELSE [b EXCEPT !.readerStarted = TRUE, !.readable.locked = TRUE, !.loop = "reading"]

\* Mutant of generatorRun: the generator ends when it has no chunk at hand.
generatorRun_endEarly(b) ==
    IF b.index < Len(b.chunks)
    THEN [b EXCEPT !.delivered = Append(@, b.chunks[b.index + 1]),
                   !.index = @ + 1, !.iter = "idle"]
    ELSE [b EXCEPT !.iter = "done"]

\* streams.ts: the generator of values() up to its next yield, return or
\* 10 ms wait.
generatorRun(b) ==
    IF b.index < Len(b.chunks)
    THEN [b EXCEPT !.delivered = Append(@, b.chunks[b.index + 1]),
                   !.index = @ + 1, !.iter = "idle"]
    ELSE IF b.streamEnded THEN [b EXCEPT !.iter = "done"]
    ELSE [b EXCEPT !.iter = "waiting"]

\* The consumer calls next() on the iterator of values().
iterNext(b) ==
    IF b.variant = "buffered"
    THEN settle(generatorRun(startReading(b)))
    ELSE settle([b EXCEPT !.readable.locked = TRUE, !.iter = "waiting"])

\* WebSocket.close()
wsClose(b) ==
    IF b.readyState \in {"CONNECTING", "OPEN"} THEN [b EXCEPT !.readyState = "CLOSING"]
    ELSE b

\* stream.cancel(): rejected on a locked stream; on a readable one the queue
\* is dropped, the stream closes and the source's cancel() runs ws.close().
cancelReadable(b) ==
    CASE b.readable.locked -> [b EXCEPT !.cancel = "rejected"]
      [] b.readable.state = "errored" -> [b EXCEPT !.cancel = "rejected"]
      [] b.readable.state = "closed" -> [b EXCEPT !.cancel = "fulfilled"]
      [] OTHER -> wsClose([b EXCEPT !.cancel = "fulfilled",
                                    !.readable.state = "closed",
                                    !.readable.queue = <<>>])

\* WebSocket.send(data): throws while connecting, transmits while open and
\* discards the data otherwise.
wsSend(b, chunk) ==
    IF b.readyState = "OPEN" THEN [b EXCEPT !.outbound = Append(@, chunk)] ELSE b

\* Mutant of write: the readyState check is left out.
write_unguarded(b, chunk) ==
    LET threw == b.readyState = "CONNECTING"
        logged == [b EXCEPT !.writes = Append(@, [chunk |-> chunk, readyState |-> b.readyState,
                                                  threw |-> threw]),
                            !.writable = IF threw THEN "errored" ELSE @]
    IN wsSend(logged, chunk)

\* write(chunk) of the writable side's sink
write(b, chunk) ==
    LET logged == [b EXCEPT !.writes = Append(@, [chunk |-> chunk, readyState |-> b.readyState,
                                                  threw |-> FALSE])]
    IN IF b.readyState = "OPEN" THEN wsSend(logged, chunk) ELSE logged

\* close() / abort() of the writable side's sink
closeWritable(b) == wsClose([b EXCEPT !.writable = "closed"])

SetBridge(b) ==
    /\ bridge' = b
    /\ UNCHANGED <<permVars, netVars, proxyVars, aggVars, normVars, multiVars, storeVars, fileVars, hookVars>>

\* The socket opens.
BridgeOpens ==
    /\ bridge.readyState = "CONNECTING"
    /\ SetBridge([bridge EXCEPT !.readyState = "OPEN"])

\* A message arrives on the open socket.
BridgeMessage ==
    /\ bridge.readyState = "OPEN"
    /\ Len(bridge.inbound) < MaxFrames
    /\ \E event \in Frames :
        SetBridge(settle(onmessage([bridge EXCEPT !.inbound = Append(@, event)], event)))

\* The socket closes, after an error event or without one: ws.onerror is
\* controller.error(error), ws.onclose is controller.close().
BridgeSocketCloses ==
    /\ bridge.readyState # "CLOSED"
    /\ \E withError \in (IF bridge.readyState = "CONNECTING" THEN {TRUE} ELSE BOOLEAN) :
        LET failed == IF withError
                      THEN settle([bridge EXCEPT !.readable = ControllerError(@)])
                      ELSE bridge
            closed == [failed EXCEPT !.readable = ControllerClose(@),
                                     !.readyState = "CLOSED"]
        IN SetBridge(settle(closed))

\* The consumer asks the iterator for the next chunk.
BridgeNext ==
    /\ bridge.iter \in {"none", "idle"}
    /\ SetBridge(iterNext(bridge))

\* streams.ts: the 10 ms timer of a waiting values() fires.
BridgePoll ==
    /\ bridge.variant = "buffered"
    /\ bridge.iter = "waiting"
    /\ bridge.index < Len(bridge.chunks) \/ bridge.streamEnded
    /\ SetBridge(generatorRun(bridge))

\* The consumer cancels the readable side.
BridgeCancel ==
    /\ bridge.cancel = "none"
    /\ SetBridge(settle(cancelReadable(bridge)))

\* WebSocketManager.disconnect(): this.ws.close()
BridgeDisconnect ==
    /\ ~bridge.disconnected
    /\ SetBridge(wsClose([bridge EXCEPT !.disconnected = TRUE]))

\* A chunk is written to the writable side.
BridgeWrite ==
    /\ bridge.writable = "writable"
    /\ Len(bridge.writes) < MaxWrites
    /\ \E chunk \in {Hi, Bytes123} : SetBridge(write(bridge, chunk))

\* The writable side is closed or aborted.
BridgeCloseWritable ==
    /\ bridge.writable = "writable"
    /\ SetBridge(closeWritable(bridge))

BridgeInit ==
    \E variant \in Variants, readyState \in {"CONNECTING", "OPEN"} :
        bridge = NewBridge(variant, readyState)

\* The readable side with its socket, and the writable side with its socket.
ReadableNext ==
    \/ BridgeOpens \/ BridgeMessage \/ BridgeSocketCloses \/ BridgeNext \/ BridgePoll
    \/ BridgeCancel \/ BridgeDisconnect

WritableNext ==
    \/ BridgeOpens \/ BridgeSocketCloses \/ BridgeDisconnect
    \/ BridgeWrite \/ BridgeCloseWritable

BridgeRest == bridge = NewBridge("direct", "OPEN")

\* ------------------------------------------------ notification utils
\* What tells two NotificationEvents apart for isSameType: type and, for a
\* session_notification, data.update.sessionUpdate; toolCallId is carried
\* along for the tool-call updates.
EventShapes ==
    {[type |-> "session_notification", sessionUpdate |-> "tool_call", toolCallId |-> "t1"],
     [type |-> "session_notification", sessionUpdate |-> "tool_call_update", toolCallId |-> "t1"],
     [type |-> "session_notification", sessionUpdate |-> "tool_call_update", toolCallId |-> "t2"],
     [type |-> "session_notification", sessionUpdate |-> "agent_message_chunk", toolCallId |-> "-"],
     [type |-> "session_notification", sessionUpdate |-> "agent_thought_chunk", toolCallId |-> "-"],
     [type |-> "connection_change", sessionUpdate |-> "-", toolCallId |-> "-"],
     [type |-> "error", sessionUpdate |-> "-", toolCallId |-> "-"]}

\* The event lists: event i has id i.
EventLists ==
    UNION {{[i \in 1..n |-> [id |-> i, type |-> f[i].type,
                             sessionUpdate |-> f[i].sessionUpdate,
                             toolCallId |-> f[i].toolCallId]] :
                f \in [1..n -> EventShapes]} : n \in 0..MaxEvents}

TOOL_TYPES == {"tool_call", "tool_call_update"}

\* Mutant of isSameType: tool calls are grouped by identical subtype only.
isSameType_bySubtype(a, b) ==
    IF a.type = "session_notification" /\ b.type = "session_notification"
    THEN a.sessionUpdate = b.sessionUpdate
    ELSE a.type = b.type

\* isSameType(a, b), a defined
isSameType(a, b) ==
    IF a.type = "session_notification" /\ b.type = "session_notification"
    THEN IF a.sessionUpdate \in TOOL_TYPES /\ b.sessionUpdate \in TOOL_TYPES
         THEN TRUE
         ELSE a.sessionUpdate = b.sessionUpdate
    ELSE a.type = b.type

\* Mutant of groupFrom: a notification of the same type replaces the last
\* group instead of joining it.
RECURSIVE groupFrom_replace(_, _, _)
groupFrom_replace(result, notifications, i) ==
    IF i > Len(notifications) THEN result
    ELSE LET notification == notifications[i]
             last == Len(result)
         IN IF last > 0 /\ isSameType(result[last][1], notification)
            THEN groupFrom_replace([result EXCEPT ![last] = <<notification>>],
                                   notifications, i + 1)
            ELSE groupFrom_replace(Append(result, <<notification>>), notifications, i + 1)

\* The loop of groupNotifications from its i-th notification on.
RECURSIVE groupFrom(_, _, _)
groupFrom(result, notifications, i) ==
    IF i > Len(notifications) THEN result
    ELSE LET notification == notifications[i]
             last == Len(result)
         IN IF last > 0 /\ isSameType(result[last][1], notification)
            THEN groupFrom([result EXCEPT ![last] = Append(@, notification)],
                           notifications, i + 1)
            ELSE groupFrom(Append(result, <<notification>>), notifications, i + 1)

\* groupNotifications(notifications)
groupNotifications(notifications) == groupFrom(<<>>, notifications, 1)

\* ToolCallUpdate values: title and status may be absent ("undefined"),
\* rawOutput is an object (a function of its keys; absent is the empty one).
\* The toolCallId may be absent ("undefined") or the empty string.
NoOutput == [k \in {} |-> "-"]
UpdateShapes ==
    {[title |-> "Read file", status |-> "pending", locations |-> <<>>, content |-> <<>>,
      rawOutput |-> NoOutput],
     [title |-> "undefined", status |-> "in_progress", locations |-> <<"p1">>,
      content |-> <<"c1">>, rawOutput |-> [k \in {"a"} |-> "1"]],
     [title |-> "Edit file", status |-> "completed", locations |-> <<"p1", "p2">>,
      content |-> <<>>, rawOutput |-> [k \in {"a", "b"} |-> "2"]],
     [title |-> "undefined", status |-> "undefined", locations |-> <<"p2">>,
      content |-> <<"c2">>, rawOutput |-> [k \in {"b"} |-> "3"]]}
ToolCallIds == {"t1", "t2", "", "undefined"}
\* !!toolCallId, if (url), if (sessionId): a string, undefined or null as a
\* condition.
Truthy(id) == id \notin {"", "undefined", "null"}
\* Every shape under the ids t1 and t2, one shape without an id.
TaggedShapes ==
    {p \in ToolCallIds \X UpdateShapes : Truthy(p[1]) \/ p[2].status = "completed"}
UpdateLists ==
    UNION {{[i \in 1..n |-> [toolCallId |-> f[i][1], title |-> f[i][2].title,
                             status |-> f[i][2].status,
                             locations |-> f[i][2].locations,
                             content |-> f[i][2].content,
                             rawOutput |-> f[i][2].rawOutput]] :
                f \in [1..n -> TaggedShapes]} : n \in 0..MaxUpdates}

\* Object.assign(target, source)
Assign(target, source) ==
    [k \in DOMAIN target \cup DOMAIN source |->
        IF k \in DOMAIN source THEN source[k] ELSE target[k]]

\* The first loop of mergeToolCalls: the Map from toolCallId to its calls,
\* as the list of its keys in insertion order and the calls of each key.
RECURSIVE partitionFrom(_, _, _, _)
partitionFrom(keys, map, calls, i) ==
    IF i > Len(calls) THEN [keys |-> keys, map |-> map]
    ELSE LET id == calls[i].toolCallId
             known == \E j \in 1..Len(keys) : keys[j] = id
         IN partitionFrom(IF known THEN keys ELSE Append(keys, id),
                          [map EXCEPT ![id] = Append(@, calls[i])],
                          calls, i + 1)

RECURSIVE assignAll(_, _)
assignAll(target, calls) ==
    IF calls = <<>> THEN target
    ELSE assignAll(Assign(target, Head(calls).rawOutput), Tail(calls))

RECURSIVE flatMap(_, _)
flatMap(calls, field) ==
    IF calls = <<>> THEN <<>>
    ELSE (IF field = "locations" THEN Head(calls).locations ELSE Head(calls).content)
             \o flatMap(Tail(calls), field)

\* Mutant of mergeOne: the status of the first call is kept.
mergeOne_firstStatus(calls) ==
    [toolCallId |-> calls[1].toolCallId,
     title |-> calls[1].title,
     status |-> calls[1].status,
     rawOutput |-> assignAll(NoOutput, calls),
     locations |-> flatMap(calls, "locations"),
     content |-> flatMap(calls, "content")]

\* Mutant of mergeOne: the spread copies the last call instead of the first.
mergeOne_spreadLast(calls) ==
    [toolCallId |-> calls[Len(calls)].toolCallId,
     title |-> calls[Len(calls)].title,
     status |-> calls[Len(calls)].status,
     rawOutput |-> assignAll(NoOutput, calls),
     locations |-> flatMap(calls, "locations"),
     content |-> flatMap(calls, "content")]

\* The record mergeToolCalls builds from the calls of one toolCallId.
mergeOne(calls) ==
    [toolCallId |-> calls[1].toolCallId,
     title |-> calls[1].title,
     status |-> calls[Len(calls)].status,
     rawOutput |-> assignAll(NoOutput, calls),
     locations |-> flatMap(calls, "locations"),
     content |-> flatMap(calls, "content")]

\* Mutant of invariant: it never throws.
invariant_silent(condition, message) == "none"

\* invariant(condition, message): the error thrown, "none" when it holds.
invariant(condition, message) == IF condition THEN "none" ELSE message

\* mergeToolCalls(calls): the array returned, or the error that the
\* invariant of the first partition without a toolCallId throws.
mergeToolCalls(calls) ==
    LET parts == partitionFrom(<<>>, [id \in ToolCallIds |-> <<>>], calls, 1)
        checks == [j \in 1..Len(parts.keys) |->
                      invariant(Truthy(parts.map[parts.keys[j]][1].toolCallId),
                                "Tool call ID is required")]
        failed == {j \in 1..Len(parts.keys) : checks[j] # "none"}
    IN IF failed # {}
       THEN [threw |-> checks[CHOOSE j \in failed : \A l \in failed : j <= l],
             value |-> <<>>]
       ELSE [threw |-> "none",
             value |-> [j \in 1..Len(parts.keys) |-> mergeOne(parts.map[parts.keys[j]])]]

IdleAgg == [op |-> "none", done |-> FALSE, input |-> <<>>, output |-> <<>>, threw |-> "none"]

SetAgg(a) ==
    /\ agg' = a
    /\ UNCHANGED <<permVars, netVars, proxyVars, bridgeVars, normVars, multiVars, storeVars, fileVars, hookVars>>

\* groupNotifications is applied to the event list.
GroupNotifications ==
    /\ agg.op = "group" /\ ~agg.done
    /\ SetAgg([agg EXCEPT !.done = TRUE, !.output = groupNotifications(agg.input)])

\* mergeToolCalls is applied to the update list.
MergeToolCalls ==
    /\ agg.op = "merge" /\ ~agg.done
    /\ LET result == mergeToolCalls(agg.input)
       IN SetAgg([agg EXCEPT !.done = TRUE, !.output = result.value,
                             !.threw = result.threw])

AggInit ==
    \/ \E events \in EventLists : agg = [IdleAgg EXCEPT !.op = "group", !.input = events]
    \/ \E calls \in UpdateLists : agg = [IdleAgg EXCEPT !.op = "merge", !.input = calls]

AggNext == GroupNotifications \/ MergeToolCalls

AggRest == agg = IdleAgg

\* ------------------------------------------------------- toJsonRpcError
\* error.stack is not standardized: V8 heads it with the error's name and
\* message, SpiderMonkey and JavaScriptCore list the frames only.
Stacks(message) ==
    {"Error: " \o message \o "\n    at prompt (agent.js:1:1)",
     "prompt@agent.js:1:1\n"}

Codes == {INVALID_PARAMS, -32000, 42}
Messages == {"bad", "boom"}
Datas == {Und, Str("detail"), Obj("{field: 1}")}

\* Instances of Error, with and without a numeric code property of their own.
ErrorInstances ==
    UNION {{[Error(m) EXCEPT !.stack = Str(st), !.codeT = ct,
                             !.code = IF ct = "number" THEN 42 ELSE 0] :
                <<st, ct>> \in Stacks(m) \X {"undefined", "number"}} : m \in Messages}

\* Plain objects: code and message absent, of the expected type or of
\* another one; data absent, a string or structured.
PlainObjects ==
    {Thrown("object", ct, IF ct = "number" THEN c ELSE 0,
            mt, IF mt = "string" THEN m ELSE "", d, Und) :
        <<ct, c, mt, m, d>> \in {"undefined", "number", "string"} \X Codes
                                 \X {"undefined", "string", "number"} \X Messages \X Datas}

\* Values that are neither errors nor objects: 42, "oops", undefined, null.
Primitives ==
    {Thrown("number", "undefined", 0, "undefined", "", Val("number", "42"), Und),
     Thrown("string", "undefined", 0, "undefined", "", Str("oops"), Und),
     Thrown("undefined", "undefined", 0, "undefined", "", Und, Und),
     Null}

CaughtValues ==
    {JsonRpcError(c, m, d) : <<c, m, d>> \in Codes \X Messages \X Datas}
        \cup ErrorInstances \cup PlainObjects \cup Primitives

\* JsonRpcError.toJSON()
NoJson == [jsonrpc |-> "-", id |-> "-", error |-> [code |-> 0, message |-> "", data |-> Und]]
toJSON(this) ==
    [jsonrpc |-> "2.0",
     id |-> IF this.id = Und THEN "null" ELSE this.id.v,
     error |-> [code |-> this.code, message |-> this.message, data |-> this.data]]

IdleNorm == [stage |-> "caught", input |-> Null, output |-> Null, json |-> NoJson]

SetNorm(n) ==
    /\ norm' = n
    /\ UNCHANGED <<permVars, netVars, proxyVars, bridgeVars, aggVars, multiVars, storeVars, fileVars, hookVars>>

\* toJsonRpcError is applied to the caught value.
Normalize ==
    /\ norm.stage = "caught"
    /\ SetNorm([norm EXCEPT !.stage = "normalized", !.output = toJsonRpcError(norm.input)])

\* toJSON() is called on the protocol error obtained.
ToJSON ==
    /\ norm.stage = "normalized"
    /\ norm.output # Null
    /\ SetNorm([norm EXCEPT !.stage = "serialized", !.json = toJSON(norm.output)])

NormInit == \E error \in CaughtValues : norm = [IdleNorm EXCEPT !.input = error]

NormNext == Normalize \/ ToJSON

NormRest == norm = IdleNorm

\* ------------------------------------------------- MultiWebSocketManager
\* The urls connect() is called with; disconnect() is also called with the
\* empty string and without argument ("undefined").
Urls == {"ws://a", "ws://b"}
DisconnectArgs == Urls \cup {"", "undefined"}
Instances == 1..MaxInstances

NoMultiCall == [op |-> "none", url |-> "-", result |-> "-", socket |-> 0, reported |-> FALSE]

\* The MultiWebSocketManager as constructed: this.managers maps a url to a
\* WebSocketManager (0: no entry); net holds the fields of every
\* WebSocketManager constructed, keyed by instance, and their sockets and
\* timers; attempts is options.reconnectAttempts.
NewMulti ==
    [managers |-> [u \in Urls |-> 0],
     currentUrl |-> "null",
     constructed |-> 0,
     attempts |-> 1,
     net |-> [ws |-> [m \in Instances |-> 0],
              reconnectCount |-> [m \in Instances |-> 0],
              reconnectTimer |-> [m \in Instances |-> 0],
              streams |-> [m \in Instances |-> 0],
              lastReported |-> [m \in Instances |-> "none"],
              sockets |-> <<>>,
              timers |-> <<>>],
     calls |-> 0,
     last |-> NoMultiCall]

\* Mutant of multiConnect: the connected transport is connected again.
multiConnect_noReuse(M, url) ==
    LET M1 == [M EXCEPT !.currentUrl = url]
        M2 == IF M1.managers[url] = 0
              THEN [M1 EXCEPT !.constructed = @ + 1, !.managers[url] = M1.constructed + 1]
              ELSE M1
    IN [M2 EXCEPT !.net = connect(M2.net, M2.managers[url], TRUE),
                  !.last = [NoMultiCall EXCEPT !.op = "connect", !.url = url,
                                               !.result = "manager.connect()"]]

\* MultiWebSocketManager.connect(url)
multiConnect(M, url) ==
    LET M1 == [M EXCEPT !.currentUrl = url]
        manager == M1.managers[url]
    IN IF manager # 0 /\ getConnectionState(M1.net, manager) = "connected"
                      /\ M1.net.streams[manager] # 0
       THEN [M1 EXCEPT !.last = [NoMultiCall EXCEPT !.op = "connect", !.url = url,
                                                    !.result = "streams",
                                                    !.socket = M1.net.streams[manager]]]
       ELSE LET M2 == IF manager = 0
                      THEN [M1 EXCEPT !.constructed = @ + 1,
                                      !.managers[url] = M1.constructed + 1]
                      ELSE M1
            IN [M2 EXCEPT !.net = connect(M2.net, M2.managers[url], TRUE),
                          !.last = [NoMultiCall EXCEPT !.op = "connect", !.url = url,
                                                       !.result = "manager.connect()"]]

\* manager.disconnect(); this.managers.delete(url)
disconnectOne(M, url) ==
    [M EXCEPT !.net = disconnect(M.net, M.managers[url]), !.managers[url] = 0]

\* The loop of disconnect() over this.managers.entries()
RECURSIVE disconnectEach(_, _)
disconnectEach(M, urls) ==
    IF urls = {} THEN M
    ELSE LET u == CHOOSE x \in urls : TRUE
         IN disconnectEach(disconnectOne(M, u), urls \ {u})

\* MultiWebSocketManager.disconnect(url?)
multiDisconnect(M, url) ==
    LET M1 == IF Truthy(url)
              THEN IF url \in Urls /\ M.managers[url] # 0 THEN disconnectOne(M, url) ELSE M
              ELSE [disconnectEach(M, {u \in Urls : M.managers[u] # 0}) EXCEPT
                       !.currentUrl = "null"]
    IN [M1 EXCEPT !.last = [NoMultiCall EXCEPT !.op = "disconnect", !.url = url]]

\* A call or an event handled on M: whether onConnectionStateChange was
\* called during it is noted in last.reported.
Unreported(M) == [M EXCEPT !.net.lastReported = [m \in Instances |-> "unreported"]]
Observed(before, after) ==
    [after EXCEPT
        !.net.lastReported = [m \in Instances |->
            IF after.net.lastReported[m] = "unreported"
            THEN before.net.lastReported[m] ELSE after.net.lastReported[m]],
        !.last.reported = \E m \in Instances : after.net.lastReported[m] # "unreported"]

SetMulti(M) ==
    /\ multi' = M
    /\ UNCHANGED <<permVars, netVars, proxyVars, bridgeVars, aggVars, normVars, storeVars, fileVars, hookVars>>

\* The application calls connect(url).
MultiConnect ==
    \E url \in Urls :
        /\ multi.calls < MaxMultiCalls
        /\ multi.constructed < MaxInstances
        /\ Len(multi.net.sockets) < MaxMultiSockets
        /\ SetMulti([Observed(multi, multiConnect(Unreported(multi), url))
                        EXCEPT !.calls = @ + 1])

\* The application calls disconnect(url) or disconnect().
MultiDisconnect ==
    \E url \in DisconnectArgs :
        /\ multi.calls < MaxMultiCalls
        /\ SetMulti([Observed(multi, multiDisconnect(Unreported(multi), url))
                        EXCEPT !.calls = @ + 1])

\* The handshake of socket s succeeds.
MultiSocketOpens ==
    \E s \in 1..Len(multi.net.sockets) :
        /\ multi.net.sockets[s].readyState = "CONNECTING"
        /\ SetMulti([multi EXCEPT
               !.net = onopen([multi.net EXCEPT !.sockets[s].readyState = "OPEN",
                                                !.sockets[s].established = TRUE], s)])

\* Socket s is closed; a socket that never opened fails with an error
\* event, an established one closes with or without one.
MultiSocketCloses ==
    \E s \in 1..Len(multi.net.sockets) :
        /\ multi.net.sockets[s].readyState \in {"CONNECTING", "OPEN", "CLOSING"}
        /\ \E withError \in (IF multi.net.sockets[s].established THEN BOOLEAN ELSE {TRUE}) :
            LET t1 == [multi.net EXCEPT !.sockets[s].readyState = "CLOSED"]
                t2 == IF withError THEN fireError(t1, s) ELSE t1
            IN SetMulti([multi EXCEPT
                   !.net = fireClose(t2, s, EffectiveAttempts(multi.attempts))])

\* The reconnect timer k fires.
MultiTimerFires ==
    \E k \in 1..Len(multi.net.timers) :
        /\ multi.net.timers[k].state = "pending"
        /\ Len(multi.net.sockets) < MaxMultiSockets
        /\ SetMulti([multi EXCEPT
               !.net = connect([multi.net EXCEPT !.timers[k].state = "fired"],
                               multi.net.timers[k].mgr, TRUE)])

MultiInit == multi = NewMulti

MultiNext ==
    \/ MultiConnect
    \/ MultiDisconnect
    \/ MultiSocketOpens
    \/ MultiSocketCloses
    \/ MultiTimerFires

MultiRest == multi = NewMulti

\* ------------------------------------------------------------ useAcpStore
Sessions == {"s1", "s2"}
\* What setActiveSessionId and clearNotifications are called with.
ActiveSessionArgs == Sessions \cup {"", "null"}
ClearArgs == Sessions \cup {"", "undefined"}
\* NotificationEventData: the type of the notification given to
\* addNotification and, for a session notification, data.sessionId.
EventDatas ==
    {[type |-> "session_notification", sessionId |-> s] : s \in Sessions}
        \cup {[type |-> "error", sessionId |-> "-"]}
Statuses == {"disconnected", "connecting", "connected", "error"}

NoStoreCall == [op |-> "none", arg |-> "-"]

\* The state the store is created with.
NewStore ==
    [connections |-> [url \in {} |-> "-"],
     activeConnectionUrl |-> "null",
     connectionState |-> "disconnected",
     agentCapabilities |-> "null",
     activeSessionId |-> "null",
     notifications |-> [id \in {} |-> <<>>],
     sessionModes |-> [id \in {} |-> "undefined"],
     calls |-> 0,
     last |-> NoStoreCall]

\* { ...current, [key]: value }
WithEntry(object, key, value) ==
    [k \in DOMAIN object \cup {key} |-> IF k = key THEN value ELSE object[k]]

\* const updated = { ...current }; delete updated[key]
WithoutEntry(object, key) == [k \in DOMAIN object \ {key} |-> object[k]]

\* a ?? b
Nullish(value) == value \in {"null", "undefined"}
Coalesce(value, other) == IF Nullish(value) THEN other ELSE value

\* prev.connections[url]?.capabilities
CapabilitiesOf(S, url) ==
    IF url \in DOMAIN S.connections THEN S.connections[url].capabilities ELSE "undefined"

\* activeConnection?.state ?? { status: "disconnected" } and
\* activeConnection?.capabilities ?? null, for the connection of url in
\* connections (none when url is falsy or has no entry).
LegacyOf(S, connections, url) ==
    LET has == Truthy(url) /\ url \in DOMAIN connections
    IN [S EXCEPT !.connectionState = IF has THEN connections[url].state ELSE "disconnected",
                 !.agentCapabilities =
                     IF has THEN Coalesce(connections[url].capabilities, "null") ELSE "null"]

\* setConnection(url, state, capabilities?)
setConnection(S, url, state, capabilities) ==
    LET kept == Coalesce(capabilities, Coalesce(CapabilitiesOf(S, url), "null"))
        entered == [S EXCEPT !.connections =
                       WithEntry(@, url, [url |-> url, state |-> state,
                                          capabilities |-> kept])]
    IN IF S.activeConnectionUrl = url
       THEN [entered EXCEPT !.connectionState = state, !.agentCapabilities = kept]
       ELSE entered

\* setActiveConnection(url)
setActiveConnection(S, url) ==
    LegacyOf([S EXCEPT !.activeConnectionUrl = url], S.connections, url)

\* removeConnection(url)
removeConnection(S, url) ==
    LET newConnections == WithoutEntry(S.connections, url)
        newActiveUrl == IF S.activeConnectionUrl = url THEN "null" ELSE S.activeConnectionUrl
    IN LegacyOf([S EXCEPT !.connections = newConnections,
                          !.activeConnectionUrl = newActiveUrl],
                newConnections, newActiveUrl)

\* setConnectionState(connectionState)
setConnectionState(S, status) ==
    LET legacy == [S EXCEPT !.connectionState = status]
    IN IF Truthy(legacy.activeConnectionUrl)
       THEN setConnection(legacy, legacy.activeConnectionUrl, status, "undefined")
       ELSE legacy

\* setAgentCapabilities(agentCapabilities)
setAgentCapabilities(S, agentCapabilities) ==
    LET legacy == [S EXCEPT !.agentCapabilities = agentCapabilities]
    IN IF Truthy(legacy.activeConnectionUrl)
       THEN setConnection(legacy, legacy.activeConnectionUrl, legacy.connectionState,
                          agentCapabilities)
       ELSE legacy

\* setActiveSessionId(sessionId)
setActiveSessionId(S, sessionId) == [S EXCEPT !.activeSessionId = sessionId]

\* setModeState(sessionId, modeState)
setModeState(S, sessionId, modeState) ==
    [S EXCEPT !.sessionModes = WithEntry(S.sessionModes, sessionId, modeState)]

\* Mutant of addNotification: without an active session the event is kept
\* under the key of the null session id.
addNotification_queued(S, notification) ==
    LET current == S.notifications
        sessionId == S.activeSessionId
        newNotification == [type |-> notification.type,
                            sessionId |-> notification.sessionId,
                            id |-> S.calls + 1]
        sessionNotifications ==
            IF sessionId \in DOMAIN current THEN current[sessionId] ELSE <<>>
    IN [S EXCEPT !.notifications =
           WithEntry(current, sessionId, Append(sessionNotifications, newNotification))]

\* addNotification(notification): the id (Date.now() and Math.random()) is
\* a value no earlier event has, here the number of the call.
addNotification(S, notification) ==
    LET current == S.notifications
        sessionId == S.activeSessionId
    IN IF ~Truthy(sessionId) THEN S
       ELSE LET newNotification == [type |-> notification.type,
                                    sessionId |-> notification.sessionId,
                                    id |-> S.calls + 1]
                sessionNotifications ==
                    IF sessionId \in DOMAIN current THEN current[sessionId] ELSE <<>>
            IN [S EXCEPT !.notifications =
                   WithEntry(current, sessionId, Append(sessionNotifications, newNotification))]

\* clearNotifications(sessionId?)
clearNotifications(S, sessionId) ==
    IF Truthy(sessionId)
    THEN [S EXCEPT !.notifications = WithoutEntry(S.notifications, sessionId)]
    ELSE [S EXCEPT !.notifications = [id \in {} |-> <<>>]]

SetStore(S, op, arg) ==
    /\ store' = [S EXCEPT !.calls = @ + 1, !.last = [op |-> op, arg |-> arg]]
    /\ UNCHANGED <<permVars, netVars, proxyVars, bridgeVars, aggVars, normVars, multiVars,
                   fileVars, hookVars>>

SetConnectionState ==
    \E status \in Statuses :
        /\ store.calls < MaxStoreCalls
        /\ SetStore(setConnectionState(store, status), "setConnectionState", status)

SetActiveSessionId ==
    \E sessionId \in ActiveSessionArgs :
        /\ store.calls < MaxStoreCalls
        /\ SetStore(setActiveSessionId(store, sessionId), "setActiveSessionId", sessionId)

AddNotification ==
    \E notification \in EventDatas :
        /\ store.calls < MaxStoreCalls
        /\ SetStore(addNotification(store, notification), "addNotification",
                    notification.type)

ClearNotifications ==
    \E sessionId \in ClearArgs :
        /\ store.calls < MaxStoreCalls
        /\ SetStore(clearNotifications(store, sessionId), "clearNotifications", sessionId)

StoreInit == store = NewStore

StoreNext ==
    \/ SetConnectionState
    \/ SetActiveSessionId
    \/ AddNotification
    \/ ClearNotifications

StoreRest == store = NewStore

\* The connection part of the multi-connection store.
Capabilities == {"null", "undefined", "caps1", "caps2"}
ActiveConnectionArgs == Urls \cup {"null"}

SetConnection ==
    \E url \in Urls, status \in Statuses, capabilities \in Capabilities :
        /\ store.calls < MaxConnectionCalls
        /\ SetStore(setConnection(store, url, status, capabilities), "setConnection", url)

SetActiveConnection ==
    \E url \in ActiveConnectionArgs :
        /\ store.calls < MaxConnectionCalls
        /\ SetStore(setActiveConnection(store, url), "setActiveConnection", url)

RemoveConnection ==
    \E url \in Urls :
        /\ store.calls < MaxConnectionCalls
        /\ SetStore(removeConnection(store, url), "removeConnection", url)

SetLegacyConnectionState ==
    \E status \in Statuses :
        /\ store.calls < MaxConnectionCalls
        /\ SetStore(setConnectionState(store, status), "setConnectionState", "-")

SetAgentCapabilities ==
    \E capabilities \in Capabilities \ {"undefined"} :
        /\ store.calls < MaxConnectionCalls
        /\ SetStore(setAgentCapabilities(store, capabilities), "setAgentCapabilities", "-")

ConnectionsNext ==
    \/ SetConnection
    \/ SetActiveConnection
    \/ RemoveConnection
    \/ SetLegacyConnectionState
    \/ SetAgentCapabilities

\* ------------------------------------ AcpClient.readTextFile/writeTextFile
FileMethods == {"readTextFile", "writeTextFile"}
FileParams == {"/a.txt", "/b.txt"}
FileResponses == {"content", "{}"}
\* What a handler does when called: it returns a promise, or throws.
HandlerBehaviours == {"returns promise", "throws"}
HandlerFailure == Error("EACCES")
\* What the handler's promise settles with.
HandlerResults == {Returned(r) : r \in FileResponses} \cup {Threw(HandlerFailure)}

NotImplemented(method) ==
    Error(IF method = "writeTextFile" THEN "Write text file handler not implemented"
          ELSE "Read text file handler not implemented")

NoFileCall == [method |-> "none", params |-> "-", outcome |-> NoResult, handler |-> NoResult]

\* An AcpClient constructed with the handlers given in options.
NewFiles(handlers) ==
    [handlers |-> handlers, call |-> NoFileCall, invoked |-> <<>>, calls |-> 0]

\* Mutant of fileRequest: without handler the call resolves with undefined.
fileRequest_silent(F, method, params, behaviour) ==
    LET F1 == [F EXCEPT !.call = [NoFileCall EXCEPT !.method = method, !.params = params],
                        !.invoked = <<>>]
    IN IF method \in F1.handlers
       THEN LET F2 == [F1 EXCEPT !.invoked = Append(@, [handler |-> method, params |-> params])]
            IN IF behaviour = "throws"
               THEN [F2 EXCEPT !.call.handler = Threw(HandlerFailure),
                               !.call.outcome = Threw(HandlerFailure)]
               ELSE F2
       ELSE [F1 EXCEPT !.call.outcome = Returned(Undefined)]

\* readTextFile(params) / writeTextFile(params): an async method, so that
\* what it throws rejects the promise it returns; the promise of the
\* handler is returned and settles the call later.
fileRequest(F, method, params, behaviour) ==
    LET F1 == [F EXCEPT !.call = [NoFileCall EXCEPT !.method = method, !.params = params],
                        !.invoked = <<>>]
    IN IF method \in F1.handlers
       THEN LET F2 == [F1 EXCEPT !.invoked = Append(@, [handler |-> method, params |-> params])]
            IN IF behaviour = "throws"
               THEN [F2 EXCEPT !.call.handler = Threw(HandlerFailure),
                               !.call.outcome = Threw(HandlerFailure)]
               ELSE F2
       ELSE [F1 EXCEPT !.call.outcome = Threw(NotImplemented(method))]

\* The promise the handler returned settles, and the call with it.
handlerSettles(F, result) ==
    [F EXCEPT !.call.handler = result, !.call.outcome = result]

SetFiles(F) ==
    /\ files' = F
    /\ UNCHANGED <<permVars, netVars, proxyVars, bridgeVars, aggVars, normVars, multiVars,
                   storeVars, hookVars>>

\* The connection calls readTextFile or writeTextFile.
FileRequest ==
    \E method \in FileMethods, params \in FileParams, behaviour \in HandlerBehaviours :
        /\ files.calls < MaxFileCalls
        /\ files.call.method # "none" => files.call.outcome # NoResult
        /\ SetFiles([fileRequest(files, method, params, behaviour) EXCEPT !.calls = @ + 1])

HandlerSettles ==
    \E result \in HandlerResults :
        /\ files.call.method # "none"
        /\ files.call.outcome = NoResult
        /\ SetFiles(handlerSettles(files, result))

FileInit == \E handlers \in SUBSET FileMethods : files = NewFiles(handlers)

FileNext == FileRequest \/ HandlerSettles

FileRest == files = NewFiles({})

\* ------------------------------------------- useAcpClient: sessions
MaxHookSteps == 4

\* The objects the requests and responses of the ListeningAgent model stand
\* for: params.sessionId and params.prompt, response.sessionId and
\* response.modes (absent in the second response).
ParamsOf(request) ==
    IF request = "req1" THEN [sessionId |-> "s1", prompt |-> <<"text">>]
    ELSE [sessionId |-> "s2", prompt |-> <<"text", "image">>]

ResponseOf(response) ==
    IF response = "resp1" THEN [sessionId |-> "s1", modes |-> "code"]
    ELSE [sessionId |-> "s2", modes |-> "undefined"]

\* The store call made by a callback: the store counts it.
Counted(S) == [S EXCEPT !.calls = @ + 1]

\* handleSessionNotification(notification)
handleSessionNotification(S, notification) ==
    Counted(addNotification(S, [type |-> "session_notification",
                                sessionId |-> notification.sessionId]))

\* handleError(error, url)
handleError(S) == Counted(addNotification(S, [type |-> "error", sessionId |-> "-"]))

\* on_newSession_response(response): reading response.sessionId of undefined
\* throws before any store call.
on_newSession_response(S, response) ==
    IF response = Undefined THEN S
    ELSE LET sessionId == ResponseOf(response).sessionId
         IN Counted(setModeState(Counted(setActiveSessionId(S, sessionId)),
                                 sessionId, ResponseOf(response).modes))

\* on_loadSession_response(response, params): reading response.modes of
\* undefined throws after setActiveSessionId.
on_loadSession_response(S, response, params) ==
    LET sessionId == ParamsOf(params).sessionId
        pointed == Counted(setActiveSessionId(S, sessionId))
    IN IF response = Undefined THEN pointed
       ELSE Counted(setModeState(pointed, sessionId, ResponseOf(response).modes))

\* on_prompt_start(params): for (const prompt of params.prompt) addNotification
RECURSIVE promptChunks(_, _, _)
promptChunks(S, sessionId, prompt) ==
    IF prompt = <<>> THEN S
    ELSE promptChunks(Counted(addNotification(S, [type |-> "session_notification",
                                                   sessionId |-> sessionId])),
                      sessionId, Tail(prompt))

on_prompt_start(S, params) ==
    promptChunks(S, ParamsOf(params).sessionId, ParamsOf(params).prompt)

\* The callbacks given to new ListeningAgent(agent, {...}) for a method.
HookCallbacks(method) ==
    [start |-> IF method = "prompt" THEN "set" ELSE "unset",
     response |-> IF method \in {"newSession", "loadSession"} THEN "set" ELSE "unset",
     error |-> "set"]

\* The callback a log entry of the ListeningAgent stands for, applied to the
\* store.
RunCallback(S, method, entry) ==
    IF entry.ev = "error" THEN handleError(S)
    ELSE IF entry.ev = "start" /\ method = "prompt" THEN on_prompt_start(S, entry.request)
    ELSE IF entry.ev = "response" /\ method = "newSession"
    THEN on_newSession_response(S, entry.response)
    ELSE IF entry.ev = "response" /\ method = "loadSession"
    THEN on_loadSession_response(S, entry.response, entry.request)
    ELSE S

RECURSIVE RunCallbacks(_, _, _)
RunCallbacks(S, method, entries) ==
    IF entries = <<>> THEN S
    ELSE RunCallbacks(RunCallback(S, method, Head(entries)), method, Tail(entries))

\* The entries a step of the ListeningAgent added to its log.
NewEntries(before, after) == SubSeq(after.log, Len(before.log) + 1, Len(after.log))

HookMethods == {"newSession", "loadSession", "prompt"}

NewHookSessions(optional) ==
    [store |-> NewStore, call |-> IdleCall, optional |-> optional, steps |-> 0]

\* agent.newSession / loadSession / prompt up to its await
hookCall(H, method, request) ==
    LET fresh == [IdleCall EXCEPT !.method = method, !.request = request,
                                  !.hooks = HookCallbacks(method)]
        c == StartCall(fresh, method \in RequiredMethods \cup H.optional)
    IN [H EXCEPT !.call = c,
                 !.store = RunCallbacks(H.store, method, NewEntries(fresh, c))]

\* The agent's promise settles and the method resumes.
hookSettles(H, result) ==
    LET c == AfterAwait(H.call, result)
    IN [H EXCEPT !.call = c,
                 !.store = RunCallbacks(H.store, c.method, NewEntries(H.call, c))]

SetHookSessions(H) ==
    /\ hookSessions' = [H EXCEPT !.steps = @ + 1]
    /\ UNCHANGED <<permVars, netVars, proxyVars, bridgeVars, aggVars, normVars, multiVars,
                   storeVars, fileVars, hookPermissions, hookConnection>>

\* The application calls a method of the agent the hook exposes.
HookCall ==
    \E method \in HookMethods, request \in Requests :
        /\ hookSessions.steps < MaxHookSteps
        /\ hookSessions.call.pc \in {"idle", "done"}
        /\ SetHookSessions(hookCall(hookSessions, method, request))

HookAgentSettles ==
    \E result \in AgentResults(hookSessions.call.method) :
        /\ hookSessions.steps < MaxHookSteps
        /\ hookSessions.call.pc = "awaiting"
        /\ SetHookSessions(hookSettles(hookSessions, result))

\* The connection delivers a session update.
HookSessionUpdate ==
    \E sessionId \in Sessions :
        /\ hookSessions.steps < MaxHookSteps
        /\ SetHookSessions([hookSessions EXCEPT !.store =
               handleSessionNotification(@, [sessionId |-> sessionId])])

\* The application selects a session with the setActiveSessionId returned
\* by the hook.
HookSelectSession ==
    \E sessionId \in Sessions \cup {"null"} :
        /\ hookSessions.steps < MaxHookSteps
        /\ SetHookSessions([hookSessions EXCEPT !.store =
               Counted(setActiveSessionId(@, sessionId))])

HookSessionsInit ==
    \E optional \in {{}, {"loadSession"}} : hookSessions = NewHookSessions(optional)

HookSessionsNext ==
    HookCall \/ HookAgentSettles \/ HookSessionUpdate \/ HookSelectSession

HookSessionsRest == hookSessions = NewHookSessions({})

\* ---------------------------------------- useAcpClient: permissions
\* The two variants of the hook in src/unnamed/part_000.
HookVariants == {"single", "multi"}

\* useState<IdentifiedPermissionRequest | null>(null)
NoPendingPermission == [set |-> FALSE, params |-> "-", deferredId |-> 0]

NoHookAnswer == [op |-> "none", id |-> 0, value |-> "-"]

NewClient ==
    [pending |-> {}, deferreds |-> [id \in PermissionIds |-> NoDeferred],
     sink |-> <<>>, requests |-> [given |-> "-", passed |-> "-"],
     calls |-> [id \in PermissionIds |-> NoCalls], next |-> 0]

NewHookPermissions(variant) ==
    [variant |-> variant, client |-> NewClient,
     pendingPermission |-> NoPendingPermission, last |-> NoHookAnswer, steps |-> 0]

\* handleRequestPermission(params): setPendingPermission(params)
handleRequestPermission(H, params, deferredId) ==
    [H EXCEPT !.pendingPermission =
        [set |-> TRUE, params |-> params, deferredId |-> deferredId]]

\* The connection calls AcpClient.requestPermission, whose sink is
\* handleRequestPermission.
hookRequestPermission(H, params) ==
    LET client == requestPermission(H.client, params, [act |-> "none", id |-> 0, value |-> "-"])
    IN handleRequestPermission([H EXCEPT !.client = client], params, client.next)

\* const permissionId = pendingPermission.deferredId in the multi-connection
\* variant, pendingPermission.id in the single-connection one: the request
\* has no id property and the read yields undefined, here 0.
PermissionIdOf(H) ==
    IF H.variant = "multi" THEN H.pendingPermission.deferredId ELSE 0

\* resolvePermission(response) of the hook
hookResolvePermission(H, response) ==
    LET answered ==
            IF H.pendingPermission.set /\ PermissionIdOf(H) # 0
            THEN [H EXCEPT !.client = resolvePermission(@, PermissionIdOf(H), response)]
            ELSE H
    IN [answered EXCEPT !.pendingPermission = NoPendingPermission]

\* rejectPermission(error) of the hook
hookRejectPermission(H, error) ==
    LET answered ==
            IF H.pendingPermission.set /\ PermissionIdOf(H) # 0
            THEN [H EXCEPT !.client = rejectPermission(@, PermissionIdOf(H), error)]
            ELSE H
    IN [answered EXCEPT !.pendingPermission = NoPendingPermission]

SetHookPermissions(H, op, value) ==
    /\ hookPermissions' =
           [H EXCEPT !.steps = @ + 1,
                     !.last = [op |-> op, id |-> hookPermissions.pendingPermission.deferredId,
                               value |-> value]]
    /\ UNCHANGED <<permVars, netVars, proxyVars, bridgeVars, aggVars, normVars, multiVars,
                   storeVars, fileVars, hookSessions, hookConnection>>

\* The agent asks for a permission.
HookRequestPermission ==
    \E params \in PermParams :
        /\ hookPermissions.steps < MaxHookSteps
        /\ hookPermissions.client.next < MaxRequests
        /\ SetHookPermissions(hookRequestPermission(hookPermissions, params),
                              "request", params)

\* The user answers the prompt the hook shows.
HookResolvePermission ==
    \E response \in Responses :
        /\ hookPermissions.steps < MaxHookSteps
        /\ SetHookPermissions(hookResolvePermission(hookPermissions, response),
                              "resolve", response)

HookRejectPermission ==
    \E error \in PermErrors :
        /\ hookPermissions.steps < MaxHookSteps
        /\ SetHookPermissions(hookRejectPermission(hookPermissions, error),
                              "reject", error)

HookPermissionsInit ==
    \E variant \in HookVariants : hookPermissions = NewHookPermissions(variant)

HookPermissionsNext ==
    HookRequestPermission \/ HookResolvePermission \/ HookRejectPermission

HookPermissionsRest == hookPermissions = NewHookPermissions("multi")

\* ----------------------------------------- useAcpClient: connection
\* options.wsUrl
WsUrl == "ws://a"

\* multiWsManagerRef.current is created by the first connect(); agent is null
\* (0) or the ListeningAgent over the ClientSideConnection built on the
\* streams of a socket, named by that socket; awaiting holds the sockets
\* whose connect() promise a call of the hook's connect awaits.
NewHookConnection ==
    [multi |-> NewMulti, agent |-> 0, awaiting |-> {}, steps |-> 0]

\* The state of the endpoint in the store: handleConnectionStateChange
\* passes every state the manager reports to setConnection(url, state).
ReportedState(H) ==
    LET manager == H.multi.managers[WsUrl]
    IN IF manager = 0 THEN "disconnected"
       ELSE IF H.multi.net.lastReported[manager] = "none" THEN "disconnected"
       ELSE H.multi.net.lastReported[manager]

\* The rest of connect() after its await: new ClientSideConnection(...,
\* ndJsonStream(writable, readable)), new ListeningAgent, setAgent.
bindAgent(H, socket) == [H EXCEPT !.agent = socket]

\* The calls of connect() whose promise has settled go on, or end with the
\* rejection.
RECURSIVE resumeConnects(_, _)
resumeConnects(H, waiting) ==
    IF waiting = {} THEN H
    ELSE LET s == CHOOSE x \in waiting : \A y \in waiting : x <= y
             promise == H.multi.net.sockets[s].promise
             H1 == IF promise = "pending" THEN H
                   ELSE [(IF promise = "resolved"
                          THEN bindAgent(H, H.multi.net.streams[H.multi.net.sockets[s].mgr])
                          ELSE H)
                         EXCEPT !.awaiting = @ \ {s}]
         IN resumeConnects(H1, waiting \ {s})

\* connect() of the hook up to its await; awaiting a promise that is
\* already fulfilled, it goes on at once.
hookConnect(H) ==
    LET M == multiConnect(H.multi, WsUrl)
        H1 == [H EXCEPT !.multi = M]
    IN IF M.last.result = "streams"
       THEN bindAgent(H1, M.last.socket)
       ELSE [H1 EXCEPT !.awaiting = @ \cup {M.net.ws[M.managers[WsUrl]]}]

SetHookConnection(H) ==
    /\ hookConnection' = [H EXCEPT !.steps = @ + 1]
    /\ UNCHANGED <<permVars, netVars, proxyVars, bridgeVars, aggVars, normVars, multiVars,
                   storeVars, fileVars, hookSessions, hookPermissions>>

\* The application, or the auto-connect effect, calls connect().
HookConnect ==
    /\ hookConnection.steps < MaxConnectSteps
    /\ Len(hookConnection.multi.net.sockets) < MaxMultiSockets
    /\ SetHookConnection(hookConnect(hookConnection))

\* The handshake of socket s succeeds.
HookSocketOpens ==
    \E s \in 1..Len(hookConnection.multi.net.sockets) :
        /\ hookConnection.steps < MaxConnectSteps
        /\ hookConnection.multi.net.sockets[s].readyState = "CONNECTING"
        /\ LET net == hookConnection.multi.net
               opened == onopen([net EXCEPT !.sockets[s].readyState = "OPEN",
                                            !.sockets[s].established = TRUE], s)
           IN SetHookConnection(resumeConnects([hookConnection EXCEPT !.multi.net = opened],
                                               hookConnection.awaiting))

\* Socket s is closed; a socket that never opened fails with an error
\* event, an established one closes with or without one.
HookSocketCloses ==
    \E s \in 1..Len(hookConnection.multi.net.sockets) :
        /\ hookConnection.steps < MaxConnectSteps
        /\ hookConnection.multi.net.sockets[s].readyState \in {"CONNECTING", "OPEN", "CLOSING"}
        /\ \E withError \in (IF hookConnection.multi.net.sockets[s].established
                             THEN BOOLEAN ELSE {TRUE}) :
            LET t1 == [hookConnection.multi.net EXCEPT !.sockets[s].readyState = "CLOSED"]
                t2 == IF withError THEN fireError(t1, s) ELSE t1
                t3 == fireClose(t2, s, EffectiveAttempts(hookConnection.multi.attempts))
            IN SetHookConnection(resumeConnects([hookConnection EXCEPT !.multi.net = t3],
                                                hookConnection.awaiting))

\* The reconnect timer k fires.
HookTimerFires ==
    \E k \in 1..Len(hookConnection.multi.net.timers) :
        /\ hookConnection.steps < MaxConnectSteps
        /\ hookConnection.multi.net.timers[k].state = "pending"
        /\ Len(hookConnection.multi.net.sockets) < MaxMultiSockets
        /\ SetHookConnection([hookConnection EXCEPT
               !.multi.net = connect([hookConnection.multi.net EXCEPT
                                         !.timers[k].state = "fired"],
                                     hookConnection.multi.net.timers[k].mgr, TRUE)])

HookConnectionInit == hookConnection = NewHookConnection

HookConnectionNext ==
    HookConnect \/ HookSocketOpens \/ HookSocketCloses \/ HookTimerFires

HookConnectionRest == hookConnection = NewHookConnection

\* Each specification runs one component and leaves the others as constructed.
NetRest == NetInit /\ reconnectAttempts = 0 /\ urlValid
ProxyRest == ProxyInit /\ agentOptional = {}

Init ==
    /\ PermInit /\ NetInit /\ ProxyInit /\ BridgeInit /\ AggInit /\ NormInit
    /\ MultiInit /\ StoreInit /\ FileInit /\ HookSessionsInit
    /\ HookPermissionsInit /\ HookConnectionInit

InitPermission == PermInit /\ NetRest /\ ProxyRest /\ BridgeRest /\ AggRest /\ NormRest /\ MultiRest
    /\ StoreRest /\ FileRest /\ HookSessionsRest /\ HookPermissionsRest
    /\ HookConnectionRest
InitTransport == PermInit /\ NetInit /\ ProxyRest /\ BridgeRest /\ AggRest /\ NormRest /\ MultiRest
    /\ StoreRest /\ FileRest /\ HookSessionsRest /\ HookPermissionsRest
    /\ HookConnectionRest
InitProxy == PermInit /\ NetRest /\ ProxyInit /\ BridgeRest /\ AggRest /\ NormRest /\ MultiRest
    /\ StoreRest /\ FileRest /\ HookSessionsRest /\ HookPermissionsRest
    /\ HookConnectionRest
InitBridge == PermInit /\ NetRest /\ ProxyRest /\ BridgeInit /\ AggRest /\ NormRest /\ MultiRest
    /\ StoreRest /\ FileRest /\ HookSessionsRest /\ HookPermissionsRest
    /\ HookConnectionRest
InitAgg == PermInit /\ NetRest /\ ProxyRest /\ BridgeRest /\ AggInit /\ NormRest /\ MultiRest
    /\ StoreRest /\ FileRest /\ HookSessionsRest /\ HookPermissionsRest
    /\ HookConnectionRest
InitNorm == PermInit /\ NetRest /\ ProxyRest /\ BridgeRest /\ AggRest /\ NormInit /\ MultiRest
    /\ StoreRest /\ FileRest /\ HookSessionsRest /\ HookPermissionsRest
    /\ HookConnectionRest

SpecPermission == InitPermission /\ [][PermNext]_vars

SpecTransport == InitTransport /\ [][NetNext]_vars

SpecProxy == InitProxy /\ [][ProxyNext]_vars

SpecReadable == InitBridge /\ [][ReadableNext]_vars

SpecWritable == InitBridge /\ [][WritableNext]_vars

SpecAggregator == InitAgg /\ [][AggNext]_vars
InitMulti ==
    PermInit /\ NetRest /\ ProxyRest /\ BridgeRest /\ AggRest /\ NormRest /\ MultiInit
    /\ StoreRest /\ FileRest /\ HookSessionsRest /\ HookPermissionsRest
    /\ HookConnectionRest
InitStore ==
    PermInit /\ NetRest /\ ProxyRest /\ BridgeRest /\ AggRest /\ NormRest /\ MultiRest
    /\ StoreInit /\ FileRest /\ HookSessionsRest /\ HookPermissionsRest
    /\ HookConnectionRest
InitFiles ==
    PermInit /\ NetRest /\ ProxyRest /\ BridgeRest /\ AggRest /\ NormRest /\ MultiRest
    /\ StoreRest /\ FileInit /\ HookSessionsRest /\ HookPermissionsRest
    /\ HookConnectionRest
SpecNormalizer == InitNorm /\ [][NormNext]_vars
SpecMulti == InitMulti /\ [][MultiNext]_vars
SpecStore == InitStore /\ [][StoreNext]_vars
SpecConnections == InitStore /\ [][ConnectionsNext]_vars
SpecFiles == InitFiles /\ [][FileNext]_vars
InitHookSessions ==
    PermInit /\ NetRest /\ ProxyRest /\ BridgeRest /\ AggRest /\ NormRest /\ MultiRest
    /\ StoreRest /\ FileRest /\ HookSessionsInit /\ HookPermissionsRest
    /\ HookConnectionRest
InitHookPermissions ==
    PermInit /\ NetRest /\ ProxyRest /\ BridgeRest /\ AggRest /\ NormRest /\ MultiRest
    /\ StoreRest /\ FileRest /\ HookSessionsRest /\ HookPermissionsInit
    /\ HookConnectionRest
SpecHookSessions == InitHookSessions /\ [][HookSessionsNext]_vars
SpecHookPermissions == InitHookPermissions /\ [][HookPermissionsNext]_vars
InitHookConnection ==
    PermInit /\ NetRest /\ ProxyRest /\ BridgeRest /\ AggRest /\ NormRest /\ MultiRest
    /\ StoreRest /\ FileRest /\ HookSessionsRest /\ HookPermissionsRest
    /\ HookConnectionInit
SpecHookConnection == InitHookConnection /\ [][HookConnectionNext]_vars

\* ------------------------------------------------------------------ C1
\* C1: for every issued permission request, the promise settles exactly once,
\* with the outcome of the first resolvePermission/rejectPermission call made
\* with its id; the entry leaves the pending set at that first call, and the
\* later calls with the same id invoke nothing on the Deferred.
C1_SettlesOnceWithFirstCall ==
    \A id \in PermissionIds :
        LET d == deferreds[id]
            calls == permCalls[id]
        IN /\ d.state = "none" => (calls.n = 0 /\ id \notin pendingPermissions)
           /\ (d.state # "none" /\ calls.n = 0) =>
                  (d.state = "pending" /\ d.settles = 0 /\ id \in pendingPermissions)
           /\ calls.n > 0 =>
                  /\ d.state = calls.first.kind
                  /\ d.value = calls.first.value
                  /\ d.settles = 1
                  /\ id \notin pendingPermissions

\* A request answered twice with different outcomes: rejected first, then
\* resolved.
C1_Witness ==
    \E id \in PermissionIds :
        /\ permCalls[id].n = 2
        /\ permCalls[id].first.kind = "rejected"
        /\ permCalls[id].last.kind = "resolved"
        /\ deferreds[id].state = "rejected"

\* ------------------------------------------------------------------ C2
\* C2: a transport configured with N >= 1 attempts, connected once and never
\* disconnected, none of whose sockets opens, makes exactly N automatic
\* retries: never more than N + 1 sockets and N timers; as long as fewer than
\* N + 1 sockets were created a closed socket leaves a retry pending; and once
\* socket N + 1 has closed no timer is pending, the retry counter is N and the
\* state last reported is disconnected.
AllFailing(m) ==
    /\ urlValid
    /\ reconnectAttempts >= 1
    /\ connectCalls[m] = 1
    /\ disconnectCalls[m] = 0
    /\ \A s \in 1..Len(sockets) : ~sockets[s].established

AllClosed == \A s \in 1..Len(sockets) : sockets[s].readyState = "CLOSED"

C2_ExactlyNRetries ==
    \A m \in Managers :
        AllFailing(m) =>
            /\ Len(sockets) <= reconnectAttempts + 1
            /\ Len(timers) <= reconnectAttempts
            /\ (AllClosed /\ Len(sockets) <= reconnectAttempts) => PendingTimers(m) # {}
            /\ (AllClosed /\ Len(sockets) = reconnectAttempts + 1) =>
                   /\ PendingTimers(m) = {}
                   /\ Len(timers) = reconnectAttempts
                   /\ reconnectCount[m] = reconnectAttempts
                   /\ lastReported[m] = "disconnected"

\* Two attempts configured, three sockets created and failed.
C2_Witness ==
    /\ AllFailing(1)
    /\ reconnectAttempts = 2
    /\ Len(sockets) = 3
    /\ AllClosed
    /\ lastReported[1] = "disconnected"

\* ------------------------------------------------------------------ C3
\* C3: after a disconnect() made while a reconnect timer was pending, and
\* until the next connect(), no timer of that time is still pending and no
\* socket has been created.
C3_DisconnectCancelsRetry ==
    \A m \in Managers :
        (term[m].active /\ term[m].hadTimer) =>
            /\ \A k \in 1..term[m].nTimers :
                   timers[k].mgr = m => timers[k].state # "pending"
            /\ Len(sockets) = term[m].nSockets

\* ------------------------------------------------------------------ C4
\* C4: after a disconnect() made while the manager's socket was connecting or
\* open, and until the next connect(), no reconnect is scheduled, no socket
\* is created and the state last reported is disconnected.
C4_DisconnectIsTerminal ==
    \A m \in Managers :
        (term[m].active /\ term[m].wsState \in {"CONNECTING", "OPEN"}) =>
            /\ Len(timers) = term[m].nTimers
            /\ Len(sockets) = term[m].nSockets
            /\ lastReported[m] = "disconnected"

\* ------------------------------------------------------------------ C5
\* C5: on a manager on which disconnect() was never called, the close event
\* of every socket, with attempts left, schedules a reconnect.
C5_CloseSchedulesReconnect ==
    \A s \in 1..Len(sockets) :
        disconnectCalls[sockets[s].mgr] = 0 => sockets[s].retry # "dropped"

\* ------------------------------------------------------------------ C6
\* C6: at most one socket of a manager is connecting or open.
C6_AtMostOneLiveSocket ==
    \A m \in Managers : Cardinality(LiveSockets(m)) <= 1

\* ------------------------------------------------------------------ C7
HookedMethods == Methods \ ExtMethods
EntriesOf(c, ev) == {i \in 1..Len(c.log) : c.log[i].ev = ev}

C8_FailureNormalizedOrUntouched ==
    (call.method \in HookedMethods /\ call.pc = "done"
        /\ call.agentResult.kind = "threw") =>
        LET e == call.agentResult.error
            normalized == toJsonRpcError(e)
        IN IF normalized # Null
           THEN /\ call.outcome = Threw(normalized)
                /\ call.hooks.error # "unset" =>
                       \E i \in 1..Len(call.log) :
                           /\ EntriesOf(call, "error") = {i}
                           /\ call.log[i] = Entry("error", "-", "-", normalized)
           ELSE /\ call.outcome = Threw(e)
                /\ EntriesOf(call, "error") = {}

\* ------------------------------------------------------------------ C9
\* C9: a call of loadSession, setSessionMode, setSessionModel, extMethod or
\* extNotification that the agent does not implement fails, is not
\* dispatched and invokes no hook.
C9_UnsupportedFailsBeforeHooks ==
    (call.pc = "done" /\ call.method \in OptionalMethods \ agentOptional) =>
        /\ call.outcome.kind = "threw"
        /\ call.log = <<>>

\* ----------------------------------------------------------------- C10
\* What the caller receives from the agent's result when no hook is set.
Unhooked(c) ==
    IF c.agentResult.kind = "threw"
    THEN Threw(IF toJsonRpcError(c.agentResult.error) # Null
               THEN toJsonRpcError(c.agentResult.error)
               ELSE c.agentResult.error)
    ELSE Returned(IF c.method \in VoidMethods THEN Undefined
                  ELSE c.agentResult.response)

\* C10: whatever the hooks do, a completed call of a method the agent
\* implements has been dispatched and the caller receives what it would
\* have received with no hooks set.
C10_ThrowingHookLeavesPathAlone ==
    (call.pc = "done" /\ call.method \in HookedMethods
        /\ call.method \in RequiredMethods \cup agentOptional) =>
        /\ EntriesOf(call, "dispatch") # {}
        /\ call.outcome = Unhooked(call)

ExpectedChunk(event) ==
    IF event.frame = "binary" THEN event.bytes ELSE Append(event.bytes, Newline)

\* C13: the chunks handed to the consumer are, one for one and in order, the
\* expected chunks of the messages received; an iteration that completes
\* without the stream having been cancelled has handed over all of them.
C13_ChunksMirrorMessages ==
    /\ Len(bridge.delivered) <= Len(bridge.inbound)
    /\ \A i \in 1..Len(bridge.delivered) :
           bridge.delivered[i] = ExpectedChunk(bridge.inbound[i])
    /\ (bridge.iter = "done" /\ bridge.cancel # "fulfilled") =>
           Len(bridge.delivered) = Len(bridge.inbound)

\* ----------------------------------------------------------------- C14
WrittenWhileOpen == SelectSeq(bridge.writes, LAMBDA w : w.readyState = "OPEN")

PollEnabled ==
    bridge.variant = "buffered"
        /\ (bridge.index < Len(bridge.chunks) \/ bridge.streamEnded)

\* C15: once the consumer has cancelled the readable side the socket is
\* closing or closed; and once the socket has closed without an error the
\* iteration has not failed, is not left waiting for ever, and if complete
\* (the stream not cancelled) has yielded every chunk received.
C15_CloseEndsIterationCleanly ==
    /\ bridge.cancel # "none" => bridge.readyState \in {"CLOSING", "CLOSED"}
    /\ (bridge.readyState = "CLOSED" /\ bridge.readable.state # "errored") =>
           /\ bridge.iter # "failed"
           /\ bridge.iter = "waiting" => PollEnabled
           /\ (bridge.iter = "done" /\ bridge.cancel # "fulfilled") =>
                  Len(bridge.delivered) = Len(bridge.inbound)

\* ----------------------------------------------------------------- C16
\* C16: once the socket's error event has put the stream in error, the
\* iteration is not waiting for chunks and has not completed as end of
\* stream: a next() that was outstanding has failed.
C16_SocketErrorFailsIteration ==
    bridge.readable.state = "errored" => bridge.iter \in {"none", "idle", "failed"}

\* ----------------------------------------------------------------- C17
\* Reads of the stream's reader in flight, and chunks read but not yielded.
InFlightReads ==
    IF bridge.variant = "buffered"
    THEN IF bridge.loop = "reading" THEN 1 ELSE 0
    ELSE IF bridge.iter = "waiting" THEN 1 ELSE 0
RetainedChunks == Len(bridge.chunks) - bridge.index

\* C17: the wrapper has at most one read in flight, and only while the
\* consumer waits for a chunk; it holds no chunk not yet yielded.
C17_ThinPullWrapper ==
    /\ InFlightReads <= 1
    /\ InFlightReads = 1 => bridge.iter = "waiting"
    /\ RetainedChunks = 0

\* ----------------------------------------------------------------- C18
RECURSIVE Flatten(_)
Flatten(groups) ==
    IF Len(groups) = 0 THEN <<>>
    ELSE Flatten(SubSeq(groups, 1, Len(groups) - 1)) \o groups[Len(groups)]

\* C18: the clusters groupNotifications returns are non-empty and their
\* concatenation, in order, is the list it was given.
C18_ClustersConcatenateToInput ==
    (agg.op = "group" /\ agg.done) =>
        /\ \A g \in 1..Len(agg.output) : Len(agg.output[g]) > 0
        /\ Len(Flatten(agg.output)) = Len(agg.input)
        /\ \A i \in 1..Len(agg.input) : Flatten(agg.output)[i] = agg.input[i]

\* [A(error), B(error), C(tool_call), D(tool_call_update)] gives [[A,B],[C,D]].
C18_Witness ==
    /\ agg.op = "group" /\ agg.done
    /\ Len(agg.input) = 4
    /\ agg.input[1].type = "error" /\ agg.input[2].type = "error"
    /\ agg.input[3].sessionUpdate = "tool_call"
    /\ agg.input[4].sessionUpdate = "tool_call_update"
    /\ agg.output = <<<<agg.input[1], agg.input[2]>>, <<agg.input[3], agg.input[4]>>>>

\* ----------------------------------------------------------------- C19
\* The kind of an event: tool-call-related, the session update's subtype,
\* connection_change or error.
Kind(event) ==
    IF event.type = "session_notification"
    THEN IF event.sessionUpdate \in {"tool_call", "tool_call_update"} THEN "tool call"
         ELSE event.sessionUpdate
    ELSE event.type

\* C19: within a cluster all events are of one kind, and the last event of
\* a cluster and the first of the next one are of different kinds.
C19_ClustersFollowKindChanges ==
    (agg.op = "group" /\ agg.done) =>
        /\ \A g \in 1..Len(agg.output) :
               \A i, j \in 1..Len(agg.output[g]) :
                   Kind(agg.output[g][i]) = Kind(agg.output[g][j])
        /\ \A g \in 1..(Len(agg.output) - 1) :
               Kind(agg.output[g][Len(agg.output[g])]) # Kind(agg.output[g + 1][1])

\* A tool_call of t1 and a tool_call_update of t2 share a cluster; two
\* session updates of different subtypes do not.
C19_Witness ==
    /\ agg.op = "group" /\ agg.done
    /\ Len(agg.output) = 3
    /\ Len(agg.output[1]) = 2
    /\ agg.output[1][1].sessionUpdate = "tool_call"
    /\ agg.output[1][2].toolCallId = "t2"
    /\ agg.output[2][1].sessionUpdate = "agent_message_chunk"
    /\ agg.output[3][1].sessionUpdate = "agent_thought_chunk"

\* ----------------------------------------------------------------- C20
UpdatesOf(id) == SelectSeq(agg.input, LAMBDA c : c.toolCallId = id)
AllIdentified(calls) == \A i \in 1..Len(calls) : Truthy(calls[i].toolCallId)

\* The concatenation of the locations, or of the content, of a list of
\* updates, in order.
RECURSIVE Concatenated(_, _)
Concatenated(updates, field) ==
    IF Len(updates) = 0 THEN <<>>
    ELSE Concatenated(SubSeq(updates, 1, Len(updates) - 1), field)
            \o (IF field = "locations" THEN updates[Len(updates)].locations
                ELSE updates[Len(updates)].content)

\* The updates of a list that carry key k in their raw output.
WithKey(updates, k) == {i \in 1..Len(updates) : k \in DOMAIN updates[i].rawOutput}
Latest(indices) == CHOOSE i \in indices : \A j \in indices : j <= i

\* C20: for updates that all carry a tool-call id,
\* mergeToolCalls yields one record per tool-call id of its input; the
\* record's status is that of the id's last update, its locations and its
\* content are the concatenation of the updates' in arrival order, and its
\* raw output has every key of the updates' raw outputs with the value of
\* the last update that carries the key.
C20_MergePerToolCall ==
    (agg.op = "merge" /\ agg.done /\ AllIdentified(agg.input)) =>
        /\ agg.threw = "none"
        /\ {agg.output[j].toolCallId : j \in 1..Len(agg.output)}
               = {agg.input[i].toolCallId : i \in 1..Len(agg.input)}
        /\ \A j, l \in 1..Len(agg.output) :
               agg.output[j].toolCallId = agg.output[l].toolCallId => j = l
        /\ \A j \in 1..Len(agg.output) :
               LET record == agg.output[j]
                   updates == UpdatesOf(record.toolCallId)
               IN /\ record.status = updates[Len(updates)].status
                  /\ record.locations = Concatenated(updates, "locations")
                  /\ record.content = Concatenated(updates, "content")
                  /\ DOMAIN record.rawOutput
                         = UNION {DOMAIN updates[i].rawOutput : i \in 1..Len(updates)}
                  /\ \A k \in DOMAIN record.rawOutput :
                         record.rawOutput[k]
                             = updates[Latest(WithKey(updates, k))].rawOutput[k]

\* Updates of t1 with statuses pending, in_progress, completed and
\* locations [], [p1], [p1,p2] give status completed, locations [p1,p1,p2].
C20_Witness ==
    /\ agg.op = "merge" /\ agg.done
    /\ Len(agg.input) = 3
    /\ \A i \in 1..3 : agg.input[i].toolCallId = "t1"
    /\ agg.input[1].status = "pending"
    /\ agg.input[2].status = "in_progress"
    /\ agg.input[3].status = "completed"
    /\ Len(agg.output) = 1
    /\ agg.output[1].status = "completed"
    /\ agg.output[1].locations = <<"p1", "p1", "p2">>
    /\ agg.output[1].rawOutput = [k \in {"a", "b"} |-> "2"]

\* ----------------------------------------------------------------- C21
\* The record of an id in the result of mergeToolCalls.
RecordsOf(id) == {j \in 1..Len(agg.output) : agg.output[j].toolCallId = id}

C21_RecordPerId ==
    (agg.op = "merge" /\ agg.done /\ AllIdentified(agg.input)) =>
        /\ agg.threw = "none"
        /\ \A i \in 1..Len(agg.input) :
               Cardinality(RecordsOf(agg.input[i].toolCallId)) = 1
        /\ \A j \in 1..Len(agg.output) :
               LET record == agg.output[j]
                   updates == UpdatesOf(record.toolCallId)
                   alone == mergeToolCalls(updates)
               IN /\ Len(updates) > 0
                  /\ record.toolCallId = updates[1].toolCallId
                  /\ record.title = updates[1].title
                  /\ alone.threw = "none"
                  /\ alone.value = <<record>>

\* C21: for updates that all carry an id, possibly interleaved across ids,
\* mergeToolCalls returns exactly one record per distinct id; the record is
\* the one mergeToolCalls returns for the updates of that id alone, in
\* their arrival order, with the id and title of the first of them; and
\* the input list is left as it was.
C21_MergeIgnoresInterleaving ==
    /\ []C21_RecordPerId
    /\ [][agg.op = "merge" => agg'.input = agg.input]_vars

\* Updates t1, t2, t1: the record of t1 has the title of the first update
\* and the status of the third, whatever the update of t2 between them.
C21_Witness ==
    /\ agg.op = "merge" /\ agg.done
    /\ Len(agg.input) = 3
    /\ agg.input[1].toolCallId = "t1" /\ agg.input[1].title = "Read file"
    /\ agg.input[2].toolCallId = "t2" /\ agg.input[2].title = "Edit file"
    /\ agg.input[3].toolCallId = "t1" /\ agg.input[3].status = "undefined"
    /\ Len(agg.output) = 2
    /\ agg.output[1].toolCallId = "t1"
    /\ agg.output[1].title = "Read file"
    /\ agg.output[1].status = "undefined"
    /\ agg.output[1].locations = <<"p2">>
    /\ agg.output[2].toolCallId = "t2"

\* ----------------------------------------------------------------- C22
\* C22: when some update passed to mergeToolCalls has no tool-call id
\* (absent or the empty string), the call throws "Tool call ID is required"
\* and returns no result.
C22_MissingIdFailsLoudly ==
    (agg.op = "merge" /\ agg.done /\ ~AllIdentified(agg.input)) =>
        /\ agg.threw = "Tool call ID is required"
        /\ agg.output = <<>>

\* An update of t1 followed by one with the empty id and one without id.
C22_Witness ==
    /\ agg.op = "merge" /\ agg.done
    /\ Len(agg.input) = 3
    /\ agg.input[1].toolCallId = "t1"
    /\ agg.input[2].toolCallId = ""
    /\ agg.input[3].toolCallId = "undefined"
    /\ agg.threw = "Tool call ID is required"

\* ----------------------------------------------------------------- C23
\* Whether string s has m as a substring.
Contains(s, m) == \E i \in 1..(Len(s) - Len(m) + 1) : SubSeq(s, i, i + Len(m) - 1) = m

IsPlainError(e) == e.type = "object" /\ e.codeT = "number" /\ e.messageT = "string"

\* C23: toJsonRpcError returns a JsonRpcError as it is; turns any other
\* Error into a JsonRpcError of code -32603 whose data contains the
\* Error's message, whether or not the Error has a numeric code; turns a
\* plain object with a numeric code and a string message into a
\* JsonRpcError of that code; and returns null for every other value.
C23_ClassifiesInOrder ==
    norm.stage # "caught" =>
        LET error == norm.input
            result == norm.output
        IN /\ error.type = "JsonRpcError" => result = error
           /\ error.type = "Error" =>
                  /\ result.type = "JsonRpcError"
                  /\ result.code = INTERNAL_ERROR
                  /\ result.data.t = "string"
                  /\ Contains(result.data.v, error.message)
           /\ IsPlainError(error) =>
                  result.type = "JsonRpcError" /\ result.code = error.code
           /\ (error.type \notin {"JsonRpcError", "Error"} /\ ~IsPlainError(error)) =>
                  result = Null

\* ----------------------------------------------------------------- C24
\* C24: a plain object {code, message, data} normalizes to a JsonRpcError
\* with the object's code, message and data, whatever the data (absent,
\* structured or a string), and toJSON() reports the same three.
C24_PlainObjectPreserved ==
    (norm.stage # "caught" /\ IsPlainError(norm.input)) =>
        /\ norm.output.type = "JsonRpcError"
        /\ norm.output.code = norm.input.code
        /\ norm.output.message = norm.input.message
        /\ norm.output.data = norm.input.data
        /\ norm.stage = "serialized" =>
               norm.json.error = [code |-> norm.input.code,
                                  message |-> norm.input.message,
                                  data |-> norm.input.data]

\* ----------------------------------------------------------------- C25
\* The last call on manager m was disconnect().
AfterDisconnect(m) == term[m].active
\* The close of manager m's socket found the automatic retries used up.
RetriesExhausted(m) == ws[m] # 0 /\ sockets[ws[m]].retry = "exhausted"

\* C25: an explicit connect() made after disconnect(), or after the
\* automatic retries were exhausted, leaves the retry counter at zero, so
\* that the full number of retries follows if the attempt fails.
C25_ConnectStartsFreshCycle ==
    [][\A m \in Managers :
          (connectCalls'[m] > connectCalls[m]
              /\ (AfterDisconnect(m) \/ RetriesExhausted(m)))
          => reconnectCount'[m] = 0]_vars

\* ----------------------------------------------------------------- C26
\* No socket of manager m has an event pending: none is connecting or closing.
Quiescent(m) ==
    \A s \in 1..Len(sockets) :
        sockets[s].mgr = m => sockets[s].readyState \in {"OPEN", "CLOSED"}

\* A failure is reported as error or as disconnected.
ReportMatches(reported, actual) ==
    \/ reported = actual
    \/ reported = "error" /\ actual = "disconnected"

\* C26: whenever no socket event is pending, the status last passed to
\* onConnectionStateChange is the status getConnectionState() derives from
\* the socket; the close of a socket that was connected is reported.
C26_ObserverFollowsTransport ==
    \A m \in Managers :
        (lastReported[m] # "none" /\ Quiescent(m)) =>
            ReportMatches(lastReported[m], getConnectionState(NetState, m))

\* ----------------------------------------------------------------- C27
\* The call made in this step: connect(url) or disconnect(url).
MultiCalled(op, url) ==
    /\ multi'.calls = multi.calls + 1
    /\ multi'.last.op = op
    /\ multi'.last.url = url

\* The transport of url is connected, as getConnectionState() tells.
TransportConnected(url) ==
    /\ multi.managers[url] # 0
    /\ getConnectionState(multi.net, multi.managers[url]) = "connected"

\* C27: connect(url) for a url whose transport is connected returns the
\* stream pair the transport already holds, creates no socket and no
\* transport, and calls the observer for no url.
C27_ConnectReusesConnected ==
    [][\A url \in Urls :
          (TransportConnected(url) /\ MultiCalled("connect", url)) =>
              /\ multi.net.streams[multi.managers[url]] # 0
              /\ multi'.last.result = "streams"
              /\ multi'.last.socket = multi.net.streams[multi.managers[url]]
              /\ multi'.net = multi.net
              /\ multi'.managers = multi.managers
              /\ multi'.constructed = multi.constructed
              /\ ~multi'.last.reported]_vars

\* connect("ws://a") returned the streams of the open socket of ws://a
\* while ws://b had a transport of its own.
C27_Witness ==
    /\ multi.last.op = "connect" /\ multi.last.url = "ws://a"
    /\ multi.last.result = "streams"
    /\ multi.last.socket = multi.net.ws[multi.managers["ws://a"]]
    /\ multi.net.sockets[multi.last.socket].readyState = "OPEN"
    /\ multi.managers["ws://b"] # 0
    /\ Len(multi.net.sockets) = 2

\* ----------------------------------------------------------------- C28
\* The fields, sockets and timers of instance m are the same after the step.
InstanceUnchanged(m) ==
    /\ multi'.net.ws[m] = multi.net.ws[m]
    /\ multi'.net.reconnectCount[m] = multi.net.reconnectCount[m]
    /\ multi'.net.reconnectTimer[m] = multi.net.reconnectTimer[m]
    /\ multi'.net.streams[m] = multi.net.streams[m]
    /\ multi'.net.lastReported[m] = multi.net.lastReported[m]
    /\ \A s \in 1..Len(multi.net.sockets) :
           multi.net.sockets[s].mgr = m => multi'.net.sockets[s] = multi.net.sockets[s]
    /\ \A k \in 1..Len(multi.net.timers) :
           multi.net.timers[k].mgr = m => multi'.net.timers[k] = multi.net.timers[k]

\* After the step instance m holds no socket, no streams and no pending
\* timer, and the socket it held is closing or closed.
InstanceTornDown(m) ==
    /\ multi'.net.ws[m] = 0
    /\ multi'.net.streams[m] = 0
    /\ multi'.net.reconnectTimer[m] = 0
    /\ multi.net.ws[m] # 0 =>
           multi'.net.sockets[multi.net.ws[m]].readyState \in {"CLOSING", "CLOSED"}
    /\ multi.net.reconnectTimer[m] # 0 =>
           multi'.net.timers[multi.net.reconnectTimer[m]].state # "pending"

\* C28: disconnect(url) tears down the transport of url, removes url from
\* the mapping and leaves the entry, sockets and timers of every other url
\* as they were; for a url without entry it changes nothing; disconnect()
\* tears down every transport and empties the mapping.
C28_DisconnectOnlyNamed ==
    [][/\ \A url \in DisconnectArgs \ {"undefined"} :
              MultiCalled("disconnect", url) =>
                  /\ \A u \in Urls \ {url} : multi'.managers[u] = multi.managers[u]
                  /\ \A m \in Instances :
                         (url \notin Urls \/ m # multi.managers[url]) => InstanceUnchanged(m)
                  /\ Len(multi'.net.sockets) = Len(multi.net.sockets)
                  /\ Len(multi'.net.timers) = Len(multi.net.timers)
                  /\ url \in Urls =>
                         /\ multi'.managers[url] = 0
                         /\ multi.managers[url] # 0 => InstanceTornDown(multi.managers[url])
       /\ MultiCalled("disconnect", "undefined") =>
              /\ \A u \in Urls : multi'.managers[u] = 0
              /\ \A u \in Urls : multi.managers[u] # 0 => InstanceTornDown(multi.managers[u])]_vars

\* ----------------------------------------------------------------- C29
\* The notification log of a session, empty when the store has none for it.
LogOf(S, session) ==
    IF session \in DOMAIN S.notifications THEN S.notifications[session] ELSE <<>>

\* The operation called in this step.
StoreCalled(op) == store'.calls = store.calls + 1 /\ store'.last.op = op

\* C29: in every step a session's log stays as it is, or addNotification
\* appends one new event at its end, or clearNotifications removes it
\* (the log of the session named when a session id is given, every log
\* when none is given); no other operation, setActiveSessionId included,
\* changes a log.
C29_LogAppendOnlyUntilCleared ==
    [][\A session \in Sessions :
          LET old == LogOf(store, session)
              new == LogOf(store', session)
          IN \/ new = old
             \/ /\ StoreCalled("addNotification")
                /\ Len(new) = Len(old) + 1
                /\ SubSeq(new, 1, Len(old)) = old
                /\ \A i \in 1..Len(old) : old[i].id # new[Len(new)].id
             \/ /\ StoreCalled("clearNotifications")
                /\ session \notin DOMAIN store'.notifications
                /\ store'.last.arg \in {session, "undefined"}]_vars

\* ----------------------------------------------------------------- C30
\* C30: with the handler given in options, readTextFile and writeTextFile
\* call that handler once with the request and settle as the handler
\* does; without it they call nothing and reject with an Error "...
\* handler not implemented", which is not a JsonRpcError.
C30_FileRequestsForwardedOrRejected ==
    files.call.method # "none" =>
        IF files.call.method \in files.handlers
        THEN /\ files.invoked = <<[handler |-> files.call.method,
                                   params |-> files.call.params]>>
             /\ files.call.outcome = files.call.handler
        ELSE /\ files.invoked = <<>>
             /\ files.call.outcome.kind = "threw"
             /\ files.call.outcome.error.type = "Error"
             /\ files.call.outcome.error.type # "JsonRpcError"
             /\ files.call.outcome.error.message \in
                    {"Read text file handler not implemented",
                     "Write text file handler not implemented"}
             /\ Contains(files.call.outcome.error.message,
                         IF files.call.method = "readTextFile" THEN "Read" ELSE "Write")

\* A client with only a read handler: readTextFile returned the handler's
\* content, then writeTextFile was rejected.
C30_Witness ==
    /\ files.handlers = {"readTextFile"}
    /\ files.calls = 2
    /\ files.call.method = "writeTextFile"
    /\ files.invoked = <<>>
    /\ files.call.outcome = Threw(NotImplemented("writeTextFile"))

\* ----------------------------------------------------------------- C31
\* At most one reconnect timer of each transport is pending.
AtMostOnePendingTimer == \A m \in Managers : Cardinality(PendingTimers(m)) <= 1

\* C31: at most one reconnect timer is pending per transport at any time,
\* and a reconnect timer is set only when no socket of the transport is
\* connecting or open.
C31_ReconnectsSerialized ==
    /\ []AtMostOnePendingTimer
    /\ [][Len(timers') > Len(timers) =>
             LET m == timers'[Len(timers')].mgr
             IN \A s \in 1..Len(sockets') :
                    sockets'[s].mgr = m =>
                        sockets'[s].readyState \notin {"CONNECTING", "OPEN"}]_vars

\* ----------------------------------------------------------------- C32
\* C32: the configured reconnectAttempts bounds the automatic retries made
\* since the last successful open, for every configured value, zero
\* included: with reconnectAttempts = 0 no reconnect timer is ever set.
C32_ConfiguredAttemptsBoundRetries ==
    /\ \A m \in Managers : reconnectCount[m] <= reconnectAttempts
    /\ reconnectAttempts = 0 => timers = <<>>

\* ----------------------------------------------------------------- C33
\* C33: every session-update event stored in the notification log of a
\* session carries that session's id: a session update, or a prompt chunk
\* recorded at prompt start, for session S is never appended to the log of
\* another session that happens to be active.
C33_EventsInOwnSessionLog ==
    \A session \in DOMAIN hookSessions.store.notifications :
        LET log == hookSessions.store.notifications[session]
        IN \A i \in 1..Len(log) :
               log[i].type = "session_notification" => log[i].sessionId = session

\* ----------------------------------------------------------------- C40
\* The ListeningAgent call completed in this step, and how it ended: the
\* agent's promise rejected or the method threw, or both went through.
SessionCallEnds ==
    /\ hookSessions'.call # hookSessions.call
    /\ hookSessions'.call.pc = "done"
    /\ hookSessions'.call.method \in {"newSession", "loadSession"}

SessionCallFailed(c) == c.agentResult.kind = "threw" \/ c.outcome.kind = "threw"

\* C40: the active session id changes only in a step that completes a
\* successful newSession (to the id in the response), completes a successful
\* loadSession (to the id in the request) or is an explicit selection; a
\* newSession or loadSession call that fails, with a protocol error or any
\* other thrown value, leaves the active session id and every session's
\* mode state as they were.
C40_FailedSessionCallChangesNothing ==
    [][LET old == hookSessions.store
           new == hookSessions'.store
           c == hookSessions'.call
       IN /\ (SessionCallEnds /\ SessionCallFailed(c)) =>
                 /\ new.activeSessionId = old.activeSessionId
                 /\ new.sessionModes = old.sessionModes
          /\ new.activeSessionId # old.activeSessionId =>
                 \/ hookSessions'.call = hookSessions.call
                 \/ /\ SessionCallEnds
                    /\ ~SessionCallFailed(c)
                    /\ new.activeSessionId =
                           IF c.method = "newSession"
                           THEN ResponseOf(c.outcome.response).sessionId
                           ELSE ParamsOf(c.request).sessionId]_vars

\* A session s1 was created with its modes; then loadSession for s2 was
\* rejected by the agent with a protocol error while s1 was active.
C40_Witness ==
    /\ hookSessions.call.method = "loadSession"
    /\ hookSessions.call.pc = "done"
    /\ ParamsOf(hookSessions.call.request).sessionId = "s2"
    /\ hookSessions.call.agentResult.kind = "threw"
    /\ hookSessions.call.agentResult.error.type = "JsonRpcError"
    /\ hookSessions.store.activeSessionId = "s1"
    /\ "s1" \in DOMAIN hookSessions.store.sessionModes

\* ----------------------------------------------------------------- C38
\* C38: addNotification called while no session is active leaves the
\* notifications map as it was, and making a session active afterwards
\* changes no log either: the event is dropped, not queued.
C38_DroppedWithoutActiveSession ==
    [][/\ (StoreCalled("addNotification") /\ store.activeSessionId = "null") =>
              store'.notifications = store.notifications
       /\ StoreCalled("setActiveSessionId") =>
              store'.notifications = store.notifications]_vars

\* A session had events, the active session was reset to null, and
\* addNotification was called after that.
C38_Witness ==
    /\ store.last.op = "addNotification"
    /\ store.activeSessionId = "null"
    /\ \E session \in DOMAIN store.notifications : Len(store.notifications[session]) = 1
    /\ store.calls = 4

\* ----------------------------------------------------------------- C39
\* The legacy fields equal the state and capabilities of the active
\* connection's entry, when there is an active connection with an entry.
LegacyMirrorsActive ==
    LET url == store.activeConnectionUrl
    IN (url # "null" /\ url \in DOMAIN store.connections) =>
           /\ store.connectionState = store.connections[url].state
           /\ store.agentCapabilities = store.connections[url].capabilities

\* This step is a setConnection or removeConnection call on a url that is
\* not the active one.
CallOnOtherUrl ==
    /\ store'.calls = store.calls + 1
    /\ store'.last.op \in {"setConnection", "removeConnection"}
    /\ store'.last.arg # store.activeConnectionUrl

LegacyUnchanged ==
    /\ store'.connectionState = store.connectionState
    /\ store'.agentCapabilities = store.agentCapabilities

\* C39: after any sequence of setConnection, setActiveConnection,
\* removeConnection, setConnectionState and setAgentCapabilities the legacy
\* connectionState and agentCapabilities mirror the entry of the active
\* connection whenever it has one, and a call on a url other than the active
\* one leaves the legacy fields unchanged.
C39_LegacyMirrorsActiveConnection ==
    /\ []LegacyMirrorsActive
    /\ [][CallOnOtherUrl => LegacyUnchanged]_vars

\* ----------------------------------------------------------------- C34
\* The user's answer given in this step through the hook.
HookAnswered(op) ==
    /\ hookPermissions'.steps = hookPermissions.steps + 1
    /\ hookPermissions'.last.op = op

\* C34: when a permission request has been delivered to the hook, the
\* hook's resolvePermission(response) (rejectPermission(error)) settles
\* that request in the AcpClient with that outcome, under the correlation
\* id the sink received, and clears pendingPermission.
C34_HookAnswerSettlesDeliveredRequest ==
    [][\A op \in {"resolve", "reject"} :
          (HookAnswered(op) /\ hookPermissions.pendingPermission.set) =>
              LET id == hookPermissions.client.sink[Len(hookPermissions.client.sink)].deferredId
                  d == hookPermissions'.client.deferreds[id]
              IN /\ hookPermissions.pendingPermission.deferredId = id
                 /\ d.state = (IF op = "resolve" THEN "resolved" ELSE "rejected")
                 /\ d.value = hookPermissions'.last.value
                 /\ id \notin hookPermissions'.client.pending
                 /\ ~hookPermissions'.pendingPermission.set]_vars

\* ----------------------------------------------------------------- C35
\* C35: a second permission request issued while the first is unanswered
\* leaves both answerable through the hook: once the user has answered every
\* prompt the hook showed (no prompt is pending in the hook), no request is
\* left in the AcpClient's pending set.
C35_NoRequestLeftBehind ==
    ~hookPermissions.pendingPermission.set => hookPermissions.client.pending = {}

\* ----------------------------------------------------------------- C36
\* C36: the readable side terminates at most once and the socket's handlers
\* leave its controller alone afterwards: a closed or errored stream keeps
\* its state, and no message, close or error handler enqueues into or closes
\* a terminated stream, so that none of them throws.
C36_ReadableTerminatesOnce ==
    /\ []~bridge.readable.threw
    /\ [][bridge.readable.state \in {"closed", "errored"} =>
              bridge'.readable.state = bridge.readable.state]_vars

\* ----------------------------------------------------------------- C37
\* C37: whenever the state reported for the endpoint is connected, the hook
\* exposes an agent, and that agent's connection runs over the streams of
\* the socket that is open now; also when the first handshake failed and an
\* automatic retry succeeded.
C37_AgentBoundWhileConnected ==
    ReportedState(hookConnection) = "connected" =>
        LET net == hookConnection.multi.net
            manager == hookConnection.multi.managers[WsUrl]
        IN /\ hookConnection.agent # 0
           /\ hookConnection.agent = net.ws[manager]
           /\ net.sockets[hookConnection.agent].readyState = "OPEN"

====
